---- MODULE Spec2Model ----
(***************************************************************************)
(* A model of librarian.catalog.Catalog (src/src/librarian/catalog.py):    *)
(* the catalog dictionary with its three views (per-label maps, `files`,   *)
(* `(data_label, parameter) pairs`), the parameter schema, the physical    *)
(* files on disk and the catalog's .yaml file.                             *)
(*                                                                         *)
(* Python values are records [t |-> type name, v |-> str(value)]; a dict   *)
(* of parameters is a function from a set of parameter names to values.    *)
(* An operation of the Catalog is an operator from the mutable state       *)
(*   [d |-> _catalog_dict, td |-> _typedparameterdict annotations,         *)
(*    disk |-> paths that exist, yaml |-> text of the .yaml file,          *)
(*    uuid |-> identifiers drawn so far]                                   *)
(* to an outcome [s |-> state left behind, err |-> exception raised or     *)
(* "", val |-> value returned]; an action applies one operation.           *)
(***************************************************************************)
EXTENDS Integers, Sequences, FiniteSets, TLC

(***************************************************************************)
(* Bounds of the model.                                                    *)
(***************************************************************************)
\* number of identifiers uuid.uuid4() hands out in one run
MaxUuid == 1
\* number of entries `files` may hold before the model stops adding
MaxEntries == 2
\* number of times the writer saves while the loader runs
MaxSaves == 1

\* `while open_attempts < 12` in Catalog.load()
MaxOpenAttempts == 12

None == "None"

(***************************************************************************)
(* Python values.                                                          *)
(***************************************************************************)
PyInt(i) == [t |-> "int", v |-> ToString(i)]
PyStr(s) == [t |-> "str", v |-> s]
PyBool(b) == [t |-> "bool", v |-> IF b THEN "True" ELSE "False"]
PyNone == [t |-> "NoneType", v |-> "None"]
\* a float with no fraction and a list: v is what str(value) writes
PyFloat(i) == [t |-> "float", v |-> ToString(i) \o ".0"]
PyList(text) == [t |-> "list", v |-> text]

\* the integers whose literals the model's strings can spell
IntRange == 0..22

\* int(s) for a str s: the integer whose literal s is; ValueError otherwise
IsIntLiteral(s) == \E i \in IntRange : ToString(i) = s
ParseInt(s) == CHOOSE i \in IntRange : ToString(i) = s

\* float(s) for a str s: the literal of an integer or of a float
IsFloatLiteral(s) == \E i \in IntRange : ToString(i) \o ".0" = s
ParseFloat(s) == CHOOSE i \in IntRange : ToString(i) \o ".0" = s

\* the list a str is cast to, as str(list) writes it: the str is split at
\* its commas and the parts are stripped, or split at its blanks when it has
\* no comma; the strs of the model other than the ones listed hold neither
SplitToList(s) ==
    CASE s = "a,b" -> "['a', 'b']"
      [] s = "a b" -> "['a', 'b']"
      [] s = "['a', 'b']" -> "[\"['a'\", \"'b']\"]"
      [] s = "['a']" -> "[\"['a']\"]"
      [] OTHER -> "['" \o s \o "']"

\* str.lower() on the strings of the model
Lower(s) ==
    CASE s = "True" -> "true"
      [] s = "False" -> "false"
      [] s = "T" -> "t"
      [] s = "F" -> "f"
      [] OTHER -> s

\* a cast that takes every value as it is
CastValue_unchecked(keytype, x) == [err |-> "", val |-> x]

\* what a cast that succeeds gives: [err, val]
Returns(x) == [err |-> "", val |-> x]

\* a str is read as a bool word; anything else but None goes through bool()
CastBool(x) ==
    CASE x.t = "str" /\ Lower(x.v) \in {"true", "t", "1"} -> Returns(PyBool(TRUE))
      [] x.t = "str" /\ Lower(x.v) \in {"false", "f", "0"} -> Returns(PyBool(FALSE))
      [] x.t = "str" -> [err |-> "ValueError", val |-> x]
      [] x.t = "NoneType" -> Returns(x)
      [] OTHER -> Returns(PyBool(~(x.v \in {"0", "0.0", "False", "", "[]"})))

\* a str is split, a list is kept, anything else (None too) is wrapped
CastList(x) ==
    CASE x.t = "str" -> Returns(PyList(SplitToList(x.v)))
      [] x.t = "list" -> Returns(x)
      [] OTHER -> Returns(PyList("[" \o x.v \o "]"))

\* int(value), None being let through
CastInt(x) ==
    CASE x.t \in {"NoneType", "int"} -> Returns(x)
      [] x.t = "bool" -> Returns(PyInt(IF x.v = "True" THEN 1 ELSE 0))
      [] x.t = "float" -> Returns(PyInt(ParseFloat(x.v)))
      [] x.t = "list" -> [err |-> "TypeError", val |-> x]
      [] x.t = "str" /\ IsIntLiteral(x.v) -> Returns(PyInt(ParseInt(x.v)))
      [] OTHER -> [err |-> "ValueError", val |-> x]

\* float(value), None being let through
CastFloat(x) ==
    CASE x.t \in {"NoneType", "float"} -> Returns(x)
      [] x.t = "int" -> Returns(PyFloat(ParseInt(x.v)))
      [] x.t = "bool" -> Returns(PyFloat(IF x.v = "True" THEN 1 ELSE 0))
      [] x.t = "list" -> [err |-> "TypeError", val |-> x]
      [] x.t = "str" /\ IsIntLiteral(x.v) -> Returns(PyFloat(ParseInt(x.v)))
      [] x.t = "str" /\ IsFloatLiteral(x.v) -> Returns(PyFloat(ParseFloat(x.v)))
      [] OTHER -> [err |-> "ValueError", val |-> x]

\* keytype(value) for one declared parameter: [err, val]
\* (cast_as_typeddict's per-key branch)
CastValue(keytype, x) ==
    CASE keytype = "bool" -> CastBool(x)
      [] keytype = "list" -> CastList(x)
      [] keytype = "int" -> CastInt(x)
      [] keytype = "float" -> CastFloat(x)
      [] x.t = "NoneType" -> Returns(x)
      [] keytype = "str" -> Returns(PyStr(x.v))
      [] OTHER -> [err |-> "TypeError", val |-> x]

(***************************************************************************)
(* Dictionaries of parameters.                                             *)
(***************************************************************************)
\* the parameter names of the model, in the order sorted() gives them
SortedNames == <<"j", "k", "m", "n">>
\* the names callers give to files; 'j' is the name a parameter is renamed to
Names == {"k", "m", "n"}

EmptyDict == [x \in {} |-> PyNone]

\* dict.update: d1 updated with the items of d2
Update(d1, d2) ==
    [x \in (DOMAIN d1) \cup (DOMAIN d2) |-> IF x \in DOMAIN d2 THEN d2[x] ELSE d1[x]]

\* the dict without key x (dict.pop, del)
Without(d, x) == [y \in (DOMAIN d) \ {x} |-> d[y]]

\* {key: str(value) for key, value in params.items()}
Stringified(params) == [x \in DOMAIN params |-> PyStr(params[x].v)]

\* value1 == value2 in Python: a bool equals the int of the same number
Number(x) ==
    IF x.t = "bool" THEN (IF x.v = "True" THEN "1" ELSE "0")
    ELSE IF x.t = "float" THEN ToString(ParseFloat(x.v))
    ELSE x.v
PyEq(x, y) ==
    IF x.t \in {"int", "bool", "float"} /\ y.t \in {"int", "bool", "float"}
    THEN Number(x) = Number(y)
    ELSE x.t = y.t /\ x.v = y.v

\* dict1 == dict2 in Python
DictEq(d1, d2) == DOMAIN d1 = DOMAIN d2 /\ \A x \in DOMAIN d1 : PyEq(d1[x], d2[x])

RECURSIVE Join(_, _)
Join(seq, sep) ==
    IF seq = <<>> THEN ""
    ELSE IF Len(seq) = 1 THEN seq[1]
    ELSE seq[1] \o sep \o Join(Tail(seq), sep)

RECURSIVE SortedItems(_, _)
SortedItems(param_dict, i) ==
    IF i > Len(SortedNames) THEN <<>>
    ELSE IF SortedNames[i] \in DOMAIN param_dict
         THEN <<SortedNames[i] \o " : " \o param_dict[SortedNames[i]].v>>
                  \o SortedItems(param_dict, i + 1)
         ELSE SortedItems(param_dict, i + 1)

\* ' | '.join(' : '.join([str(key), str(value)]) for key, value in sorted(items))
dict_to_yaml_key(param_dict) == Join(SortedItems(param_dict, 1), " | ")

(***************************************************************************)
(* The state of one Catalog instance and of its directory.                 *)
(***************************************************************************)
VARIABLES
    catalog_dict,       \* self._catalog_dict
    typedparameterdict, \* self._typedparameterdict: [none, ann]
    disk,               \* the paths of data files that exist
    yaml_file,          \* the text of <catalog_dir>/<name>.yaml
    uuid_count,         \* how many identifiers uuid.uuid4() has handed out
    verbose,            \* self._verbose
    allow_undeclared_parameters, \* self._allow_undeclared_parameters
    has_allow_undeclared_parameters, \* whether __init__ assigned that attribute
    overwrite_behavior, \* self._overwrite_behavior
    ret,                \* the last call: its name, arguments and outcome
    prompt,             \* how far a call of ask_to_overwrite has come
    loader,             \* a second instance inside Catalog.load() on the file
    writer              \* how far a save() of the first instance has come

catalog_vars == <<catalog_dict, typedparameterdict, disk, yaml_file, uuid_count>>
config_vars == <<verbose, allow_undeclared_parameters, has_allow_undeclared_parameters,
                 overwrite_behavior, prompt>>
load_vars == <<loader, writer>>

\* the labels and extensions callers use; the catalog recognizes one of each
Labels == {"a", "b"}
Extensions == {".txt"}
RecognizedNames == {"a"}
RecognizedExtensions == {".txt"}

\* the top-level keys of _catalog_dict other than the data labels
MetaKeys == {"(data_label, parameter) pairs", "default parameters", "files",
             "parameter types", "recognized extensions", "recognized names"}

\* the mutable state the operations act on
State == [d |-> catalog_dict, td |-> typedparameterdict, disk |-> disk,
          yaml |-> yaml_file, uuid |-> uuid_count]

Ok(s, val) == [s |-> s, err |-> "", val |-> val]
Raise(s, err) == [s |-> s, err |-> err, val |-> None]

(***************************************************************************)
(* Type checking and casting of parameters.                                *)
(***************************************************************************)
\* the first declared key (in sorted order) whose cast raised, or 0; casts
\* holds the outcome of the cast of every declared key
RECURSIVE FirstCastError(_, _)
FirstCastError(casts, i) ==
    IF i > Len(SortedNames) THEN 0
    ELSE IF SortedNames[i] \in DOMAIN casts /\ casts[SortedNames[i]].err # ""
         THEN i
         ELSE FirstCastError(casts, i + 1)

\* cast_as_typeddict(dictionary, typeddict, defaults, allow_undeclared_keys)
\* for a typeddict that is not None: [err, val]
cast_as_typeddict(dictionary, ann, defaults, allow_undeclared_keys) ==
    LET Cast(result, casts, bad) ==
            IF bad # 0
            THEN [err |-> casts[SortedNames[bad]].err, val |-> dictionary]
            ELSE [err |-> "",
                  val |-> [x \in DOMAIN result |->
                              IF x \in DOMAIN ann THEN casts[x].val ELSE result[x]]]
        Casts(result, casts) == Cast(result, casts, FirstCastError(casts, 1))
        Check(expected_keys, all_given_keys, result) ==
            IF ~allow_undeclared_keys /\ expected_keys # all_given_keys
            THEN [err |-> "ValueError", val |-> dictionary]
            ELSE IF allow_undeclared_keys /\ ~(expected_keys \subseteq all_given_keys)
            THEN [err |-> "ValueError", val |-> dictionary]
            ELSE Casts(result, [x \in DOMAIN ann |-> CastValue(ann[x], result[x])])
    IN  Check(DOMAIN ann, DOMAIN dictionary \cup DOMAIN defaults,
              Update(defaults, dictionary))

\* Catalog.configure_parameters(parameters): [err, val]
configure_parameters(s, parameters) ==
    IF s.td.none THEN [err |-> "", val |-> parameters]
    ELSE IF ~has_allow_undeclared_parameters
    THEN [err |-> "AttributeError", val |-> parameters]
    ELSE cast_as_typeddict(Update(s.d.defaults, parameters), s.td.ann,
                           s.d.defaults, allow_undeclared_parameters)

\* check_if_recognized(label, recognized_labels, default_action): does it raise?
check_if_recognized_raises(label, recognized_labels, default_action) ==
    /\ default_action \notin {"ignore", "warn"}
    /\ label \notin recognized_labels

\* check_if_recognized(label, recognized_labels, classification,
\* default_action): [err, warnings, val]; warnings counts the calls of
\* warnings.warn, and the failing assert returns nothing
check_if_recognized(label, recognized_labels, default_action) ==
    [err |-> IF check_if_recognized_raises(label, recognized_labels, default_action)
             THEN "AssertionError" ELSE "",
     warnings |-> IF default_action = "warn" /\ label \notin recognized_labels
                  THEN 1 ELSE 0,
     val |-> IF default_action \in {"ignore", "warn"}
             THEN (IF label \in recognized_labels THEN "True" ELSE "False")
             ELSE None]

(***************************************************************************)
(* Looking files up.                                                       *)
(***************************************************************************)
\* list.index(x): the first position holding x (0 when there is none)
Index(seq, x) ==
    IF \E i \in DOMAIN seq : seq[i] = x
    THEN CHOOSE i \in DOMAIN seq : seq[i] = x /\ \A j \in 1..(i - 1) : seq[j] # x
    ELSE 0

\* Catalog.filename_from_yaml_key(data_label, yaml_key): [err, val]
filename_from_yaml_key(s, data_label, yaml_key) ==
    IF data_label \in DOMAIN s.d.entries /\ yaml_key \in DOMAIN s.d.entries[data_label]
    THEN [err |-> "", val |-> s.d.entries[data_label][yaml_key].filename]
    ELSE [err |-> "FileNotFoundError", val |-> None]

\* the warn_behavior Catalog.get_filename derives from self._verbose
GetFilenameWarnBehavior ==
    IF verbose < 10 THEN "ignore" ELSE IF verbose < 20 THEN "warn" ELSE "error"

\* Catalog.get_filename(data_label, params): [err, val]
\* params is [given, v]: params=None is given = FALSE
get_filename(s, data_label, params) ==
    LET Lookup(conf) ==
            IF conf.err # "" THEN [err |-> conf.err, val |-> None]
            ELSE IF check_if_recognized_raises(data_label, s.d.rnames,
                                               GetFilenameWarnBehavior)
            THEN [err |-> "AssertionError", val |-> None]
            ELSE filename_from_yaml_key(s, data_label, dict_to_yaml_key(conf.val))
    IN  IF ~params.given
        THEN [err |-> IF s.td.none
                      THEN IF check_if_recognized_raises(data_label, s.d.rnames,
                                                         GetFilenameWarnBehavior)
                           THEN "AssertionError" ELSE "AttributeError"
                      ELSE "TypeError",
              val |-> None]
        ELSE Lookup(configure_parameters(s, params.v))

\* Catalog.has_file once it has seen that exactly one of filename and
\* data_label is None: [err, val]
has_file_lookup(s, filename, data_label, params) ==
    LET \* what pair i of the pairs list raises in the consistency check
        Raised(conf, label) ==
            IF conf.err # "" THEN conf.err
            ELSE IF label = data_label /\ DictEq(params.v, conf.val)
            THEN "AssertionError"
            ELSE ""
        check == [i \in DOMAIN s.d.pairs |->
                     Raised(configure_parameters(s, s.d.pairs[i][2]), s.d.pairs[i][1])]
        FirstRaised(raised) ==
            IF \E i \in DOMAIN raised : raised[i] # ""
            THEN [err |-> raised[CHOOSE k \in DOMAIN raised :
                                    raised[k] # "" /\ \A j \in 1..(k - 1) : raised[j] = ""],
                  val |-> FALSE]
            ELSE [err |-> "", val |-> FALSE]
        Found(found) ==
            IF found.err = "" THEN [err |-> "", val |-> TRUE]
            ELSE IF found.err # "FileNotFoundError"
            THEN [err |-> found.err, val |-> FALSE]
            ELSE FirstRaised(check)
    IN  IF filename # None
        THEN [err |-> "", val |-> \E i \in DOMAIN s.d.files : s.d.files[i] = filename]
        ELSE Found(get_filename(s, data_label, params))

\* has_file without its check of the arguments
has_file_unchecked(s, filename, data_label, params) ==
    has_file_lookup(s, filename, data_label, params)

\* Catalog.has_file(filename, data_label, params): [err, val]
has_file(s, filename, data_label, params) ==
    IF (filename = None) = (data_label = None)
    THEN [err |-> "ValueError", val |-> FALSE]
    ELSE has_file_lookup(s, filename, data_label, params)

\* Catalog.get_data_label_params(filename): [err, val = <<data_label, params>>]
get_data_label_params(s, filename) ==
    LET Configured(label, conf) == [err |-> conf.err, val |-> <<label, conf.val>>]
        Pair(pair) == Configured(pair[1], configure_parameters(s, pair[2]))
    IN  IF ~has_file(s, filename, None, [given |-> FALSE, v |-> EmptyDict]).val
        THEN [err |-> "FileNotFoundError", val |-> <<None, EmptyDict>>]
        ELSE Pair(s.d.pairs[Index(s.d.files, filename)])

\* the data labels in the order the catalog dict holds them (sorted here)
SortedLabels == <<"a", "b">>

\* Catalog.get_yaml_key(filename), called for a filename that has_file found:
\* the yaml key of the first entry holding the filename, whatever its label
get_yaml_key(s, filename) ==
    LET holds(l) == l \in DOMAIN s.d.entries
                    /\ \E k \in DOMAIN s.d.entries[l] : s.d.entries[l][k].filename = filename
        keyOf(l) == CHOOSE k \in DOMAIN s.d.entries[l] : s.d.entries[l][k].filename = filename
    IN  IF \E i \in DOMAIN SortedLabels : holds(SortedLabels[i])
        THEN [err |-> "",
              val |-> keyOf(SortedLabels[CHOOSE i \in DOMAIN SortedLabels :
                                holds(SortedLabels[i])
                                /\ \A j \in 1..(i - 1) : ~holds(SortedLabels[j])])]
        ELSE [err |-> "AssertionError", val |-> None]

(***************************************************************************)
(* The catalog's .yaml file.                                               *)
(***************************************************************************)
\* the strs of the model that str(list) writes; a plain scalar cannot begin
\* with '['
ListTexts ==
    {"['a', 'b']", "['a']", "[\"['a'\", \"'b']\"]", "[\"['a']\"]", "[1]", "[None]",
     "['x']", "['1']", "[True]"}

\* the tag yaml's implicit resolver gives a plain scalar
Resolve(text) ==
    IF IsIntLiteral(text) THEN "int"
    ELSE IF IsFloatLiteral(text) THEN "float"
    ELSE IF text \in ListTexts THEN "flow"
    ELSE IF text \in {"true", "false", "True", "False", "yes", "no", "on", "off"}
    THEN "bool"
    ELSE IF text \in {"null", "Null", "~", ""} THEN "null"
    ELSE "str"

\* a dump that never quotes a str
DumpScalar_unquoted(x) ==
    CASE x.t = "bool" -> [plain |-> TRUE, text |-> IF x.v = "True" THEN "true" ELSE "false"]
      [] x.t = "NoneType" -> [plain |-> TRUE, text |-> "null"]
      [] OTHER -> [plain |-> TRUE, text |-> x.v]

\* yaml.safe_dump of one scalar: a str is written plain only if a plain scalar
\* of that text would be read back as a str
DumpScalar(x) ==
    CASE x.t = "str" -> [plain |-> Resolve(x.v) = "str", text |-> x.v]
      [] x.t = "int" -> [plain |-> TRUE, text |-> x.v]
      [] x.t = "bool" -> [plain |-> TRUE, text |-> IF x.v = "True" THEN "true" ELSE "false"]
      [] x.t = "float" -> [plain |-> TRUE, text |-> x.v]
      [] x.t = "dict" -> [plain |-> FALSE, text |-> x.v, mapping |-> TRUE]
      [] x.t = "list" -> [plain |-> FALSE, text |-> x.v, sequence |-> TRUE]
      [] OTHER -> [plain |-> TRUE, text |-> "null"]

\* yaml.safe_load of one scalar
LoadScalar(sc) ==
    IF "mapping" \in DOMAIN sc THEN [t |-> "dict", v |-> sc.text]
    ELSE IF "sequence" \in DOMAIN sc THEN PyList(sc.text)
    ELSE IF ~sc.plain THEN PyStr(sc.text)
    ELSE CASE Resolve(sc.text) = "int" -> PyInt(ParseInt(sc.text))
           [] Resolve(sc.text) = "float" -> PyFloat(ParseFloat(sc.text))
           [] Resolve(sc.text) = "bool" ->
                  PyBool(sc.text \in {"true", "True", "yes", "on"})
           [] Resolve(sc.text) = "null" -> PyNone
           [] OTHER -> PyStr(sc.text)

DumpDict(d) == [x \in DOMAIN d |-> DumpScalar(d[x])]
LoadDict(d) == [x \in DOMAIN d |-> LoadScalar(d[x])]

\* the mapping yaml.safe_dump writes for _catalog_dict; a pair
\* <<data_label, params, "tuple">> is written as a list of two items
DumpCatalog(d) ==
    [pairs |-> [i \in DOMAIN d.pairs |-> <<d.pairs[i][1], DumpDict(d.pairs[i][2])>>],
     entries |-> [l \in DOMAIN d.entries |->
                    [k \in DOMAIN d.entries[l] |->
                        [params |-> DumpDict(d.entries[l][k].params),
                         filename |-> DumpScalar(PyStr(d.entries[l][k].filename))]]],
     defaults |-> DumpDict(d.defaults),
     files |-> [i \in DOMAIN d.files |-> DumpScalar(PyStr(d.files[i]))],
     ptypes |-> [none |-> d.ptypes.none,
                 v |-> [x \in DOMAIN d.ptypes.v |-> DumpScalar(PyStr(d.ptypes.v[x]))]],
     rexts |-> {DumpScalar(PyStr(x)) : x \in d.rexts},
     rnames |-> {DumpScalar(PyStr(x)) : x \in d.rnames}]

\* the keys of the dumped mapping in the order safe_dump writes them (sorted)
TopLevelOrder == <<"(data_label, parameter) pairs", "a", "b", "default parameters",
                   "files", "parameter types", "recognized extensions",
                   "recognized names">>

RECURSIVE WrittenKeys(_, _)
WrittenKeys(labels, i) ==
    IF i > Len(TopLevelOrder) THEN <<>>
    ELSE IF TopLevelOrder[i] \in MetaKeys \cup labels
         THEN <<TopLevelOrder[i]>> \o WrittenKeys(labels, i + 1)
         ELSE WrittenKeys(labels, i + 1)

\* the file Catalog.save() leaves: the comment header, then the whole mapping
\* ([header, nkeys, torn] tell how much of it is in the file)
SavedFile(d) ==
    [doc |-> DumpCatalog(d), header |-> TRUE,
     nkeys |-> Len(WrittenKeys(DOMAIN d.entries, 1)), torn |-> FALSE]

\* a save() that would keep the files another process has written
save_merging(s) ==
    LET Kept(old) == SelectSeq(old, LAMBDA x : \A i \in DOMAIN s.d.files :
                                                 DumpScalar(PyStr(s.d.files[i])) # x)
    IN  [s EXCEPT !.yaml = [SavedFile(s.d) EXCEPT
                               !.doc.files = Kept(s.yaml.doc.files) \o @]]

\* Catalog.save()
save(s) == [s EXCEPT !.yaml = SavedFile(s.d)]

\* yaml.safe_load of what a reader finds in the file: "ScannerError" or
\* "ParserError" when the text ends inside a token (`torn`; which of the two
\* depends on where it ends, so `how` picks one), None for a file with no
\* mapping in it, else the mapping of the top-level keys written so far
safe_load(file, how) ==
    IF file.torn THEN [err |-> how, isNone |-> FALSE, keys |-> {}]
    ELSE IF ~file.header \/ file.nkeys = 0
    THEN [err |-> "", isNone |-> TRUE, keys |-> {}]
    ELSE LET written == WrittenKeys(DOMAIN file.doc.entries, 1)
         IN  [err |-> "", isNone |-> FALSE,
              keys |-> {written[i] : i \in 1..file.nkeys}]

\* the dict safe_load builds from the keys it found; a list in the file is
\* read as a list
LoadCatalog(doc, keys) ==
    [entries |-> [l \in DOMAIN doc.entries \cap keys |->
                    [k \in DOMAIN doc.entries[l] |->
                        [params |-> LoadDict(doc.entries[l][k].params),
                         filename |-> LoadScalar(doc.entries[l][k].filename).v]]],
     files |-> IF "files" \in keys
               THEN [i \in DOMAIN doc.files |-> LoadScalar(doc.files[i]).v]
               ELSE << >>,
     pairs |-> IF "(data_label, parameter) pairs" \in keys
               THEN [i \in DOMAIN doc.pairs |->
                        <<doc.pairs[i][1], LoadDict(doc.pairs[i][2]), "list">>]
               ELSE << >>,
     ptypes |-> IF "parameter types" \in keys
                THEN [none |-> doc.ptypes.none,
                      v |-> [x \in DOMAIN doc.ptypes.v |-> LoadScalar(doc.ptypes.v[x]).v]]
                ELSE [none |-> TRUE, v |-> EmptyDict],
     defaults |-> IF "default parameters" \in keys THEN LoadDict(doc.defaults)
                  ELSE EmptyDict,
     rnames |-> IF "recognized names" \in keys
                THEN {LoadScalar(x).v : x \in doc.rnames} ELSE {},
     rexts |-> IF "recognized extensions" \in keys
               THEN {LoadScalar(x).v : x \in doc.rexts} ELSE {},
     isNone |-> FALSE,
     meta |-> keys \cap MetaKeys]

\* self._catalog_dict = None
NoneDict ==
    [entries |-> EmptyDict, files |-> << >>, pairs |-> << >>,
     ptypes |-> [none |-> TRUE, v |-> EmptyDict], defaults |-> EmptyDict,
     rnames |-> {}, rexts |-> {}, isNone |-> TRUE, meta |-> {}]

\* one pass through the body of the loop of Catalog.load() on the instance
\* [d, td, installed]: what the instance holds afterwards and how the pass
\* ends ("return", "retry" after a ScannerError, or the exception raised)
load_attempt(self, file, how) ==
    LET Installed(keys, d) ==
            IF "default parameters" \notin keys
            THEN [self |-> [d |-> [d EXCEPT !.meta = @ \cup {"default parameters"}],
                            td |-> [none |-> d.ptypes.none, ann |-> d.ptypes.v],
                            installed |-> TRUE],
                  end |-> "AssertionError"]
            ELSE [self |-> [d |-> d,
                            td |-> [none |-> d.ptypes.none, ann |-> d.ptypes.v],
                            installed |-> TRUE],
                  end |-> "return"]
        Loaded(loaded) ==
            IF loaded.err = "ScannerError" THEN [self |-> self, end |-> "retry"]
            ELSE IF loaded.err # "" THEN [self |-> self, end |-> loaded.err]
            ELSE IF loaded.isNone
            THEN [self |-> [self EXCEPT !.d = NoneDict, !.installed = TRUE],
                  end |-> "AttributeError"]
            ELSE Installed(loaded.keys, LoadCatalog(file.doc, loaded.keys))
    IN  Loaded(safe_load(file, how))

\* a Catalog instance on which load() has assigned nothing yet
NewInstance ==
    [d |-> NoneDict, td |-> [none |-> TRUE, ann |-> EmptyDict], installed |-> FALSE]

(***************************************************************************)
(* Generating and cataloging filenames.                                    *)
(***************************************************************************)
NoParams == [given |-> FALSE, v |-> EmptyDict]
Params(p) == [given |-> TRUE, v |-> p]

\* the sequence without its i-th element (del seq[i])
RemoveAt(seq, i) == SubSeq(seq, 1, i - 1) \o SubSeq(seq, i + 1, Len(seq))

\* unique_filename(label, folder, file_extension) with the uuid-th identifier;
\* the extension has its leading '.' stripped and put back
unique_filename(label, uuid, file_extension) ==
    IF file_extension = None THEN label \o "_" \o ToString(uuid)
    ELSE label \o "_" \o ToString(uuid) \o file_extension

\* Catalog.remove_file(filename, data_label, params, delete_file, save);
\* `denied` are the paths whose unlink the file system refuses
\* (PermissionError, IsADirectoryError); unlinking a missing path raises
\* FileNotFoundError, the one exception remove_file catches
remove_file(s, filename, data_label, params, delete_file, do_save, denied) ==
    LET \* the index update and the save
        Removed(unlinked, name, label, yaml_key, index) ==
            IF index = 0 THEN Raise(unlinked, "ValueError")
            ELSE IF label \notin DOMAIN s.d.entries
                    \/ yaml_key \notin DOMAIN s.d.entries[label]
            THEN Raise([unlinked EXCEPT !.d.files = RemoveAt(s.d.files, index),
                                        !.d.pairs = RemoveAt(s.d.pairs, index)],
                       "KeyError")
            ELSE Ok(IF do_save
                    THEN save([unlinked EXCEPT
                                 !.d.files = RemoveAt(s.d.files, index),
                                 !.d.pairs = RemoveAt(s.d.pairs, index),
                                 !.d.entries[label] = Without(s.d.entries[label], yaml_key)])
                    ELSE [unlinked EXCEPT
                            !.d.files = RemoveAt(s.d.files, index),
                            !.d.pairs = RemoveAt(s.d.pairs, index),
                            !.d.entries[label] = Without(s.d.entries[label], yaml_key)],
                    None)
        \* Path(filename).unlink()
        Unlinked(name, label, yaml_key) ==
            IF delete_file /\ name \in s.disk /\ name \in denied
            THEN Raise(s, "PermissionError")
            ELSE Removed(IF delete_file THEN [s EXCEPT !.disk = s.disk \ {name}] ELSE s,
                         name, label, yaml_key, Index(s.d.files, name))
        \* the yaml key, the filename and the data label of the entry
        Located(key, lp) ==
            IF key.err # "" THEN Raise(s, key.err)
            ELSE IF lp.err # "" THEN Raise(s, lp.err)
            ELSE Unlinked(IF filename = None
                          THEN s.d.entries[data_label][key.val].filename
                          ELSE filename,
                          lp.val[1], key.val)
        Checked(cparams, found) ==
            IF found.err # "" THEN Raise(s, found.err)
            ELSE IF ~found.val THEN Raise(s, "FileNotFoundError")
            ELSE Located(IF filename = None
                         THEN [err |-> "", val |-> dict_to_yaml_key(cparams.v)]
                         ELSE get_yaml_key(s, filename),
                         IF filename = None
                         THEN [err |-> "", val |-> <<data_label, cparams.v>>]
                         ELSE get_data_label_params(s, filename))
        Configured(conf) ==
            IF conf.err # "" THEN Raise(s, conf.err)
            ELSE Checked([given |-> params.given, v |-> conf.val],
                         has_file(s, filename, data_label,
                                  [given |-> params.given, v |-> conf.val]))
    IN  Configured(IF params.given THEN configure_parameters(s, params.v)
                   ELSE [err |-> "", val |-> params.v])

\* the keys of _catalog_dict whose value is a list or a str
ListAndStrKeys ==
    {"files", "(data_label, parameter) pairs", "recognized names",
     "recognized extensions", "name", "directory", "yaml location", "creation time",
     "last modified", "description"}

\* an entry {..., 'filename': name} seen as a value of the dict it is put in
EntryDict(name) == [t |-> "dict", v |-> name]

\* the warn_behavior Catalog.new_filename derives from self._verbose
NewFilenameWarnBehavior ==
    IF verbose <= 10 THEN "ignore" ELSE IF verbose <= 20 THEN "warn" ELSE "error"

\* ask_to_overwrite(name, default, timeout): the answer is 'o', 's' or 'c'; a
\* prompt that times out answers with the first letter of the default
\* no call of ask_to_overwrite is going on: [pc, default, text, depth] are
\* where the call stands, the default it was given, what the last prompt
\* got and how many calls of ask_to_overwrite are on the stack
NoPrompt == [pc |-> "idle", default |-> None, text |-> None, depth |-> 0]

ask_to_overwrite_skips_on_cancel(answer, default) ==
    IF answer = "timeout"
    THEN CASE default = "overwrite" -> "o" [] OTHER -> "s"
    ELSE IF answer = "c" THEN "s" ELSE answer

ask_to_overwrite(answer, default) ==
    IF answer = "timeout"
    THEN CASE default = "overwrite" -> "o" [] default = "skip" -> "s" [] OTHER -> "c"
    ELSE answer

\* Catalog.new_filename(data_label, params, file_extension, filename=filename,
\* warn_behavior=warn_behavior); filename = None asks for a generated one;
\* `answer` is what the overwrite prompt gets
new_filename(s, data_label, params, file_extension, filename, warn_behavior, answer, denied) ==
    LET \* the three views get the entry and the catalog is saved; the map of
        \* the label 'default parameters' or 'parameter types' is the dict
        \* of the defaults or of the declared types itself
        Added(s3, name, yaml_key, strparams) ==
            Ok(save([s3 EXCEPT
                       !.d.entries[data_label] =
                           Update(s3.d.entries[data_label],
                                  [k \in {yaml_key} |->
                                      [params |-> strparams, filename |-> name]]),
                       !.d.files = Append(s3.d.files, name),
                       !.d.pairs = Append(s3.d.pairs,
                                          <<data_label, strparams, "tuple">>),
                       !.d.defaults =
                           IF data_label = "default parameters"
                           THEN Update(@, [k \in {yaml_key} |-> EntryDict(name)])
                           ELSE @,
                       !.d.ptypes =
                           IF data_label = "parameter types"
                           THEN [none |-> FALSE,
                                 v |-> Update(@.v, [k \in {yaml_key} |-> name])]
                           ELSE @]),
               name)
        Removed(removed, name, yaml_key, strparams) ==
            IF removed.err # "" THEN Raise(removed.s, removed.err)
            ELSE Added(removed.s, name, yaml_key, strparams)
        \* an entry whose file exists: ask, or overwrite when not verbose
        Resolved(s2, cparams, name, yaml_key, on_disk, overwrite) ==
            IF on_disk /\ overwrite = "c" THEN Raise(s2, "KeyboardInterrupt")
            ELSE IF on_disk /\ overwrite = "s" THEN Ok(s2, None)
            ELSE Removed(IF on_disk
                         THEN remove_file(s2, None, data_label, Params(cparams), TRUE,
                                          TRUE, denied)
                         ELSE Ok(s2, None),
                         name, yaml_key, Stringified(cparams))
        Keyed(s2, cparams, name, yaml_key) ==
            Resolved(s2, cparams, name, yaml_key,
                     /\ yaml_key \in DOMAIN s2.d.entries[data_label]
                     /\ s2.d.entries[data_label][yaml_key].filename \in s2.disk,
                     IF verbose > 0 THEN ask_to_overwrite(answer, overwrite_behavior)
                     ELSE "o")
        \* a data label used for the first time gets an empty map; a label
        \* that is the key of a list or of a str of the catalog dict has no
        \* .get()
        Named(s1, cparams, name) ==
            IF data_label \in ListAndStrKeys THEN Raise(s1, "AttributeError")
            ELSE
            Keyed(IF data_label \in DOMAIN s1.d.entries THEN s1
                  ELSE [s1 EXCEPT !.d.entries =
                           [l \in DOMAIN s1.d.entries \cup {data_label} |->
                               IF l = data_label THEN EmptyDict ELSE s1.d.entries[l]]],
                  cparams, name, dict_to_yaml_key(cparams))
        Checked(conf, behavior) ==
            IF conf.err # "" THEN Raise(s, conf.err)
            ELSE IF check_if_recognized_raises(file_extension, s.d.rexts, behavior)
                    \/ check_if_recognized_raises(data_label, s.d.rnames, behavior)
            THEN Raise(s, "AssertionError")
            ELSE IF filename = None
            THEN Named([s EXCEPT !.uuid = s.uuid + 1], conf.val,
                       unique_filename(data_label, s.uuid + 1, file_extension))
            ELSE Named(s, conf.val, filename)
    IN  Checked(configure_parameters(s, params),
                IF warn_behavior = None THEN NewFilenameWarnBehavior ELSE warn_behavior)

\* Catalog.add_file(filename, data_label, params)
add_file(s, filename, data_label, params, answer, denied) ==
    new_filename(s, data_label, params, None, filename, "ignore", answer, denied)

(***************************************************************************)
(* Modifying the catalog.                                                  *)
(***************************************************************************)
\* the loop of Catalog.purge() over self.get_files(None), which is the list
\* `files` itself: the iterator's position advances while remove_file deletes
\* from the list it walks
RECURSIVE purge_loop(_, _, _)
purge_loop(s, i, denied) ==
    LET Step(removed) ==
            IF removed.err # "" THEN removed
            ELSE purge_loop(removed.s, i + 1, denied)
    IN  IF i > Len(s.d.files) THEN Ok(s, None)
        ELSE Step(remove_file(s, s.d.files[i], None, NoParams, TRUE, FALSE, denied))

\* Catalog.purge() with no file filter
purge(s, denied) ==
    LET Saved(looped) == IF looped.err # "" THEN looped ELSE Ok(save(looped.s), None)
    IN  Saved(purge_loop(s, 1, denied))

(***************************************************************************)
(* The catalogs the model starts from and the arguments callers pass.      *)
(***************************************************************************)
Verbosities == {0, 10, 20, 30}
OverwriteBehaviors == {"overwrite", "skip", "cancel"}

\* the `parameters` and `default_parameters` given to Catalog.__init__
NoSchema == [none |-> TRUE, v |-> EmptyDict]
TypedSchema == [none |-> FALSE, v |-> [x \in {"n"} |-> "int"]]

\* parameters, default_parameters and strictness: a catalog without declared
\* parameters never reads its strictness
SchemaModes == {[parameters |-> NoSchema, allow |-> FALSE],
                [parameters |-> TypedSchema, allow |-> FALSE],
                [parameters |-> TypedSchema, allow |-> TRUE]}

\* the parameter dicts callers pass
ParamInputs == {[x \in {"n"} |-> PyInt(1)], [x \in {"m", "n"} |-> PyInt(1)]}

\* paths of files written by something else, which add_file registers; they
\* exist when the catalog is made
ExternalFiles == {"out.dat"}

\* what the overwrite prompt can get
Answers == {"timeout", "o", "s", "c"}

\* Catalog.__init__ for a catalog that is not loaded: the dict it builds
NewCatalogDict(parameters, default_parameters) ==
    [entries |-> [l \in RecognizedNames |-> EmptyDict],
     files |-> << >>,
     pairs |-> << >>,
     ptypes |-> parameters,
     defaults |-> default_parameters,
     rnames |-> RecognizedNames,
     rexts |-> RecognizedExtensions,
     isNone |-> FALSE,
     meta |-> MetaKeys]

\* the record of the last call: its name, the exception it raised ("" for
\* none), the value it returned and, when it returned a filename, the
\* data_label and params it was called with
NoCall == [op |-> "init", err |-> "", val |-> None, label |-> None,
           params |-> NoParams]

\* no load() under way; no save() under way
NoLoad == [pc |-> "idle", open_attempts |-> 0, self |-> NewInstance,
           parsed |-> FALSE, err |-> ""]
NoSave == [pc |-> "idle", saves |-> 0]

Init ==
    /\ verbose \in Verbosities
    /\ overwrite_behavior \in OverwriteBehaviors
    /\ \E mode \in SchemaModes :
          /\ allow_undeclared_parameters = mode.allow
          /\ has_allow_undeclared_parameters = TRUE
          /\ catalog_dict = NewCatalogDict(mode.parameters, EmptyDict)
          /\ typedparameterdict = [none |-> mode.parameters.none,
                                   ann |-> mode.parameters.v]
    /\ disk = ExternalFiles
    /\ yaml_file = SavedFile(catalog_dict)
    /\ uuid_count = 0
    /\ ret = NoCall
    /\ loader = NoLoad
    /\ prompt = NoPrompt
    /\ writer = NoSave

\* the state an operation leaves and the record of the call
Apply(out, op, data_label, params) ==
    /\ catalog_dict' = out.s.d
    /\ typedparameterdict' = out.s.td
    /\ disk' = out.s.disk
    /\ yaml_file' = out.s.yaml
    /\ uuid_count' = out.s.uuid
    /\ ret' = IF out.err = "" /\ out.val # None
               THEN [op |-> op, err |-> out.err, val |-> out.val,
                     label |-> data_label, params |-> params]
               ELSE [NoCall EXCEPT !.op = op, !.err = out.err]
    /\ UNCHANGED <<config_vars, load_vars>>

Indexed == {catalog_dict.files[i] : i \in DOMAIN catalog_dict.files}


\* the file new_filename finds on disk for (data_label, params), if any: the
\* case in which it shows the overwrite prompt
Collision(l, p) ==
    LET Entry(conf, key) ==
            IF conf.err = "" /\ l \in DOMAIN catalog_dict.entries
               /\ key \in DOMAIN catalog_dict.entries[l]
               /\ catalog_dict.entries[l][key].filename \in disk
            THEN {catalog_dict.entries[l][key].filename}
            ELSE {}
        Configured(conf) == Entry(conf, dict_to_yaml_key(conf.val))
    IN  Configured(configure_parameters(State, p))

\* what the prompt gets when it is shown (verbose > 0 and a file was found)
PromptAnswers(l, p) == IF verbose > 0 /\ Collision(l, p) # {} THEN Answers ELSE {None}

\* the paths whose unlink the file system refuses during the call, among
\* those the call may unlink
Refusals(paths) == {{}} \cup {{f} : f \in paths \cap disk}

NewFilename ==
    \E l \in Labels, p \in ParamInputs, e \in Extensions :
      \E a \in PromptAnswers(l, p), denied \in Refusals(Collision(l, p)) :
        /\ uuid_count < MaxUuid
        /\ Len(catalog_dict.files) < MaxEntries
        /\ Apply(new_filename(State, l, p, e, None, None, a, denied),
                 "new_filename", l, Params(p))

AddFile ==
    \E f \in (ExternalFiles \cap disk) \ Indexed, l \in Labels, p \in ParamInputs :
      \E a \in PromptAnswers(l, p), denied \in Refusals(Collision(l, p)) :
        /\ Len(catalog_dict.files) < MaxEntries
        /\ Apply(add_file(State, f, l, p, a, denied), "add_file", l, Params(p))

\* the params argument: a dict or None
OptParams == {Params(q) : q \in ParamInputs} \cup {NoParams}

\* the file a call of remove_file may unlink
Target(f, l, p) ==
    IF f # None THEN {f} ELSE IF p.given /\ l # None THEN Collision(l, p.v) ELSE {}

\* the calls of remove_file a caller can make, with the unlinks the file
\* system refuses: by filename or by (data_label, params), with params or
\* data_label left out or put in, and with neither or both of filename and
\* data_label
RemoveFileCalls ==
    LET Calls(fs, ls, deletes) ==
            {c \in [f : fs, l : ls, p : OptParams, delete_file : deletes,
                    denied : SUBSET disk] :
                c.denied \in IF c.delete_file THEN Refusals(Target(c.f, c.l, c.p))
                             ELSE {{}}}
    IN  Calls(Indexed \cup ExternalFiles, {None}, BOOLEAN)
            \cup Calls({None}, Labels, BOOLEAN)
            \cup Calls({None}, {None}, {TRUE})
            \cup Calls(Indexed \cup ExternalFiles, Labels, {TRUE})

RemoveFile ==
    \E c \in RemoveFileCalls :
        Apply(remove_file(State, c.f, c.l, c.p, c.delete_file, TRUE, c.denied),
              "remove_file", None, NoParams)

Purge ==
    \E denied \in Refusals(Indexed) :
        Apply(purge(State, denied), "purge", None, NoParams)

\* a caller writes the file whose name the catalog gave out
WriteFile ==
    \E f \in Indexed \ disk :
        /\ disk' = disk \cup {f}
        /\ ret' = [NoCall EXCEPT !.op = "write"]
        /\ UNCHANGED <<catalog_dict, typedparameterdict, yaml_file, uuid_count>>
        /\ UNCHANGED <<config_vars, load_vars>>

Next == NewFilename \/ AddFile \/ RemoveFile \/ Purge \/ WriteFile

vars == <<catalog_dict, typedparameterdict, disk, yaml_file, uuid_count,
          verbose, allow_undeclared_parameters, has_allow_undeclared_parameters,
          overwrite_behavior, prompt, ret,
          loader, writer>>

Spec == Init /\ [][Next]_vars

(***************************************************************************)
(* A load() of the catalog file while another process saves it.            *)
(***************************************************************************)
\* the catalogs the saving process holds: a new one, one with an entry, one
\* with two entries under two labels
SavedCatalogs ==
    LET Two(new, one) ==
            {new.d, one.d,
             add_file(one, "more.dat", "b", [x \in {"n"} |-> PyInt(1)], None, {}).s.d}
        One(new) ==
            Two(new, add_file(new, "out.dat", "a", [x \in {"n"} |-> PyInt(1)], None, {}).s)
        New(d) ==
            One([d |-> d, td |-> [none |-> FALSE, ann |-> TypedSchema.v],
                 disk |-> ExternalFiles, yaml |-> SavedFile(d), uuid |-> 0])
    IN  New(NewCatalogDict(TypedSchema, EmptyDict))

InitLoad ==
    /\ verbose = 10
    /\ overwrite_behavior = "skip"
    /\ allow_undeclared_parameters = FALSE
    /\ has_allow_undeclared_parameters = TRUE
    /\ catalog_dict \in SavedCatalogs
    /\ typedparameterdict = [none |-> FALSE, ann |-> TypedSchema.v]
    /\ disk = ExternalFiles
    /\ yaml_file = SavedFile(catalog_dict)
    /\ uuid_count = 0
    /\ ret = NoCall
    /\ loader = NoLoad
    /\ prompt = NoPrompt
    /\ writer = NoSave

\* Catalog.load() is called on the second instance
LoadBegin ==
    /\ loader.pc = "idle"
    /\ loader' = [loader EXCEPT !.pc = "open"]
    /\ UNCHANGED <<catalog_vars, config_vars, ret, writer>>

\* one pass of the loop: open the file, read what is there, safe_load it
LoadAttempt ==
    /\ loader.pc = "open"
    /\ \E how \in {"ScannerError", "ParserError"} :
         LET Ended(out, parsed) ==
               CASE out.end = "return" ->
                      [loader EXCEPT !.pc = "returned", !.self = out.self,
                                     !.parsed = TRUE]
                 [] out.end = "retry" ->
                      [loader EXCEPT !.pc = "sleep",
                                     !.open_attempts = @ + 1, !.parsed = FALSE]
                 [] OTHER ->
                      [loader EXCEPT !.pc = "raised", !.self = out.self,
                                     !.err = out.end, !.parsed = parsed]
         IN  loader' = Ended(load_attempt(loader.self, yaml_file, how),
                             safe_load(yaml_file, how).err = "")
    /\ UNCHANGED <<catalog_vars, config_vars, ret, writer>>

\* time.sleep(5) is over: the loop goes on while open_attempts < 12, and
\* after it load raises the ScannerError
LoadSleep ==
    /\ loader.pc = "sleep"
    /\ loader' = IF loader.open_attempts < MaxOpenAttempts
                 THEN [loader EXCEPT !.pc = "open"]
                 ELSE [loader EXCEPT !.pc = "raised", !.err = "ScannerError"]
    /\ UNCHANGED <<catalog_vars, config_vars, ret, writer>>

\* Catalog.save() of the first instance: open(path, 'w') truncates the file
SaveOpen ==
    /\ writer.pc = "idle"
    /\ writer.saves < MaxSaves
    /\ yaml_file' = [SavedFile(catalog_dict) EXCEPT !.header = FALSE, !.nkeys = 0]
    /\ writer' = [writer EXCEPT !.pc = "header"]
    /\ UNCHANGED <<catalog_dict, typedparameterdict, disk, uuid_count>>
    /\ UNCHANGED <<config_vars, ret, loader>>

\* catalog.write(self.yaml_header()) reaches the file
SaveHeader ==
    /\ writer.pc = "header"
    /\ yaml_file' = [yaml_file EXCEPT !.header = TRUE]
    /\ writer' = [writer EXCEPT !.pc = "dump"]
    /\ UNCHANGED <<catalog_dict, typedparameterdict, disk, uuid_count>>
    /\ UNCHANGED <<config_vars, ret, loader>>

\* more of the text of yaml.safe_dump reaches the file: up to the middle of
\* the next top-level key, or up to its end
SaveDump ==
    /\ writer.pc = "dump"
    /\ yaml_file.nkeys < Len(WrittenKeys(DOMAIN yaml_file.doc.entries, 1))
    /\ \/ /\ ~yaml_file.torn
          /\ yaml_file' = [yaml_file EXCEPT !.torn = TRUE]
       \/ yaml_file' = [yaml_file EXCEPT !.nkeys = @ + 1, !.torn = FALSE]
    /\ UNCHANGED <<catalog_dict, typedparameterdict, disk, uuid_count>>
    /\ UNCHANGED <<config_vars, ret, loader, writer>>

\* the `with` block of save() closes the file
SaveClose ==
    /\ writer.pc = "dump"
    /\ yaml_file.nkeys = Len(WrittenKeys(DOMAIN yaml_file.doc.entries, 1))
    /\ writer' = [writer EXCEPT !.pc = "idle", !.saves = @ + 1]
    /\ UNCHANGED <<catalog_vars, config_vars, ret, loader>>

NextLoad ==
    LoadBegin \/ LoadAttempt \/ LoadSleep \/ SaveOpen \/ SaveHeader \/ SaveDump
        \/ SaveClose

SpecLoad == InitLoad /\ [][NextLoad]_vars

(***************************************************************************)
(* The catalog's three views.                                              *)
(***************************************************************************)
\* the aligned-lists invariant: `files` and the pairs list have one length and
\* the per-label map, at the yaml key of pair i, holds file i
ViewsAgree(d) ==
    /\ Len(d.files) = Len(d.pairs)
    /\ \A i \in 1..Len(d.files) :
          LET data_label == d.pairs[i][1]
              yaml_key == dict_to_yaml_key(d.pairs[i][2])
          IN  /\ data_label \in DOMAIN d.entries
              /\ yaml_key \in DOMAIN d.entries[data_label]
              /\ d.entries[data_label][yaml_key].filename = d.files[i]

\* C1: after every public operation that returns, `files` and the pairs list
\* have the same length and the per-label map, at the key of pair i, holds
\* file i.
C1_ViewsAgreeAfterEveryCall == ret.err = "" => ViewsAgree(catalog_dict)

\* C2: whenever new_filename returns a path, has_file(data_label, params) is
\* True and get_filename(data_label, params) returns that path, in every
\* configuration.
C2_NewFilenameIsFound ==
    (ret.op = "new_filename" /\ ret.err = "" /\ ret.val # None) =>
        LET found == has_file(State, None, ret.label, ret.params)
            got == get_filename(State, ret.label, ret.params)
        IN  /\ found.err = "" /\ found.val
            /\ got.err = "" /\ got.val = ret.val

(***************************************************************************)
(* Collisions and the overwrite policy.                                    *)
(***************************************************************************)
\* an outcome that left the three views, the .yaml file and the disk alone
Unchanged(out) ==
    /\ out.s.d = catalog_dict
    /\ out.s.yaml = yaml_file
    /\ out.s.disk = disk

\* the positions of `files` whose pair is (data_label, yaml_key)
EntriesFor(d, data_label, yaml_key) ==
    {i \in 1..Len(d.pairs) :
        d.pairs[i][1] = data_label /\ dict_to_yaml_key(d.pairs[i][2]) = yaml_key}

\* new_filename lets the data label through its recognition check
LabelPasses(l) ==
    ~check_if_recognized_raises(l, catalog_dict.rnames, NewFilenameWarnBehavior)

\* C3: with policy `skip`, new_filename for a (label, params) whose indexed
\* file exists on disk (the label passing the recognition check; the prompt,
\* if shown, timing out or answered 's') returns None, there is still exactly
\* one entry for the key, and the views, the .yaml file and the disk are
\* unchanged.
C3_SkipPolicyReturnsNone ==
    overwrite_behavior = "skip" =>
        \A l \in Labels, p \in ParamInputs, e \in Extensions :
          \A a \in PromptAnswers(l, p) \cap {None, "timeout", "s"} :
            (Collision(l, p) # {} /\ LabelPasses(l)) =>
                LET out == new_filename(State, l, p, e, None, None, a, {})
                    key == dict_to_yaml_key(configure_parameters(State, p).val)
                IN  /\ out.err = "" /\ out.val = None
                    /\ Cardinality(EntriesFor(out.s.d, l, key)) = 1
                    /\ Unchanged(out)

\* C4: with policy `overwrite`, new_filename for a (label, params) whose
\* indexed file exists on disk (the label passing the recognition check; the
\* prompt, if shown, timing out or answered 'o'; the file system refusing no
\* unlink) deletes the old file, drops the old filename from the three views,
\* indexes the new filename and leaves exactly one entry for the key.
C4_OverwritePolicyReplaces ==
    overwrite_behavior = "overwrite" =>
        \A l \in Labels, p \in ParamInputs, e \in Extensions :
          \A a \in PromptAnswers(l, p) \cap {None, "timeout", "o"} :
            (Collision(l, p) # {} /\ LabelPasses(l)) =>
                LET out == new_filename(State, l, p, e, None, None, a, {})
                    key == dict_to_yaml_key(configure_parameters(State, p).val)
                    d == out.s.d
                IN  /\ out.err = "" /\ out.val # None
                    /\ Collision(l, p) \cap out.s.disk = {}
                    /\ \A i \in 1..Len(d.files) : d.files[i] \notin Collision(l, p)
                    /\ \A x \in DOMAIN d.entries : \A k \in DOMAIN d.entries[x] :
                          d.entries[x][k].filename \notin Collision(l, p)
                    /\ d.entries[l][key].filename = out.val
                    /\ \E i \in 1..Len(d.files) :
                          /\ EntriesFor(d, l, key) = {i}
                          /\ d.files[i] = out.val

(***************************************************************************)
(* Removing entries.                                                       *)
(***************************************************************************)
Empty(d) ==
    /\ d.files = << >>
    /\ d.pairs = << >>
    /\ \A l \in DOMAIN d.entries : DOMAIN d.entries[l] = {}

\* C5: purge() with no filter leaves `files`, the pairs list and every
\* per-label map empty, whatever the number of entries, and a second purge()
\* changes nothing.
C5_PurgeEmptiesCatalog ==
    (ret.op = "purge" /\ ret.err = "") =>
        /\ Empty(catalog_dict)
        /\ \A denied \in Refusals(Indexed) : Unchanged(purge(State, denied))

\* how a call of remove_file names its file: by filename, by (data_label,
\* params), or (both or neither, or a data_label without params) badly
ByName(c) == c.f # None /\ c.l = None
ByKey(c) == c.f = None /\ c.l # None /\ c.p.given

\* the yaml key of the params of a call
KeyOf(c) == dict_to_yaml_key(configure_parameters(State, c.p.v).val)

LabelFound(l) ==
    ~check_if_recognized_raises(l, catalog_dict.rnames, GetFilenameWarnBehavior)

\* the schema accepts the params of a call, if it has any
ParamsPass(c) == c.p.given => configure_parameters(State, c.p.v).err = ""

C7_UnlinkFailureIsNotFatal ==
    \A c \in RemoveFileCalls :
        LET out == remove_file(State, c.f, c.l, c.p, c.delete_file, TRUE, c.denied)
            d == out.s.d
        IN  (/\ c.delete_file /\ ByName(c) /\ ParamsPass(c) /\ c.f \in Indexed
             /\ (c.f \notin disk \/ c.f \in c.denied)) =>
                /\ out.err = ""
                /\ \A i \in 1..Len(d.files) : d.files[i] # c.f
                /\ \A l \in DOMAIN d.entries : \A k \in DOMAIN d.entries[l] :
                      d.entries[l][k].filename # c.f
                /\ Len(d.pairs) = Len(d.files)
                /\ out.s.yaml = SavedFile(d)

(***************************************************************************)
(* Saving and loading.                                                     *)
(***************************************************************************)
\* two catalog dicts with the same files, the same (label, params) at every
\* position of the pairs list, the same per-label maps, schema, defaults and
\* recognized sets
SameCatalog(d1, d2) ==
    /\ d1.isNone = d2.isNone
    /\ d1.files = d2.files
    /\ Len(d1.pairs) = Len(d2.pairs)
    /\ \A i \in 1..Len(d1.pairs) :
          d1.pairs[i][1] = d2.pairs[i][1] /\ d1.pairs[i][2] = d2.pairs[i][2]
    /\ d1.entries = d2.entries
    /\ d1.ptypes = d2.ptypes
    /\ d1.defaults = d2.defaults
    /\ d1.rnames = d2.rnames
    /\ d1.rexts = d2.rexts

C9_LoadRetriesThenReturnsOrRaises ==
    /\ loader.open_attempts <= MaxOpenAttempts
    /\ loader.parsed => (loader.pc = "returned" /\ loader.self.installed)
    /\ (loader.pc = "raised" /\ loader.err = "ScannerError") =>
            (loader.open_attempts = MaxOpenAttempts /\ ~loader.self.installed)

\* C10: while another process saves the file, load() returns only with the
\* complete saved catalog installed, raises only the ScannerError after its
\* last attempt, and never leaves a truncated or partial catalog installed.
C10_LoadNeverInstallsPartialCatalog ==
    /\ loader.pc = "returned" => SameCatalog(loader.self.d, catalog_dict)
    /\ loader.pc = "raised" =>
            (loader.err = "ScannerError" /\ loader.open_attempts = MaxOpenAttempts)
    /\ loader.self.installed => SameCatalog(loader.self.d, catalog_dict)

(***************************************************************************)
(* The yaml key of a parameter dict.  A Python dict keeps its items in     *)
(* insertion order: here it is a sequence of <<name, value>> with distinct *)
(* names, and dict_to_yaml_key sorts the items before it joins them.       *)
(***************************************************************************)
\* str(value) of the values callers pass: integers and strings, one of the
\* strings holding both separators
KeyValues == {PyInt(1), PyStr("1"), PyStr("2"), PyStr("1 | n : 2")}

\* the dicts of at most three items over the names of the model, in every
\* insertion order
ItemSeqs ==
    {items \in UNION {[1..len -> Names \X KeyValues] : len \in 0..Cardinality(Names)} :
        \A i, j \in DOMAIN items : items[i][1] = items[j][1] => i = j}

\* key1 < key2 for two names (str comparison)
NameLess(key1, key2) == Index(SortedNames, key1) < Index(SortedNames, key2)

\* list.insert of one item before the first item with a larger key
RECURSIVE InsertSorted(_, _)
InsertSorted(item, sorted) ==
    IF sorted = << >> THEN <<item>>
    ELSE IF NameLess(item[1], Head(sorted)[1]) THEN <<item>> \o sorted
    ELSE <<Head(sorted)>> \o InsertSorted(item, Tail(sorted))

RECURSIVE sorted_items(_)
\* the items left in insertion order
items_unsorted(items) == items

\* sorted(param_dict.items())
sorted_items(items) ==
    IF items = << >> THEN << >>
    ELSE InsertSorted(Head(items), sorted_items(Tail(items)))

\* pair_separator.join([str(key), str(value)]) for every item
JoinedPairs(items) == [i \in DOMAIN items |-> items[i][1] \o " : " \o items[i][2].v]

\* dict_to_yaml_key(param_dict) for a dict given with its insertion order
yaml_key_of_items(items) == Join(JoinedPairs(sorted_items(items)), " | ")

\* the dict as a function from its names to its values
AsDict(items) ==
    [x \in {items[i][1] : i \in DOMAIN items} |->
        items[CHOOSE i \in DOMAIN items : items[i][1] = x][2]]

\* the set of (name, str(value)) pairs of a dict
StrPairs(items) == {<<items[i][1], items[i][2].v>> : i \in DOMAIN items}

InitKey ==
    /\ verbose = 10
    /\ overwrite_behavior = "skip"
    /\ allow_undeclared_parameters = FALSE
    /\ has_allow_undeclared_parameters = TRUE
    /\ catalog_dict = NewCatalogDict(NoSchema, EmptyDict)
    /\ typedparameterdict = [none |-> TRUE, ann |-> EmptyDict]
    /\ disk = ExternalFiles
    /\ yaml_file = SavedFile(catalog_dict)
    /\ uuid_count = 0
    /\ ret = NoCall
    /\ loader = NoLoad
    /\ prompt = NoPrompt
    /\ writer = NoSave

\* a caller encodes a dict
DictToYamlKey ==
    \E items \in ItemSeqs :
        /\ ret' = [op |-> "dict_to_yaml_key", err |-> "",
                   val |-> yaml_key_of_items(items), label |-> None,
                   params |-> [given |-> TRUE, v |-> items]]
        /\ UNCHANGED <<catalog_vars, config_vars, load_vars>>

NextKey == DictToYamlKey

SpecKey == InitKey /\ [][NextKey]_vars

\* C11: two dicts with the same yaml key have the same set of (name,
\* str(value)) pairs, also when a string value holds ' : ' or ' | '.
C11_YamlKeyIsInjective ==
    ret.op = "dict_to_yaml_key" =>
        \A other \in ItemSeqs :
            yaml_key_of_items(other) = ret.val =>
                StrPairs(other) = StrPairs(ret.params.v)

\* C12: two dicts with the same set of (name, str(value)) pairs have the same
\* yaml key, whatever their insertion orders; it is the key the catalog
\* computes for the dict.
C12_YamlKeyIgnoresOrder ==
    ret.op = "dict_to_yaml_key" =>
        /\ \A other \in ItemSeqs :
              StrPairs(other) = StrPairs(ret.params.v) =>
                  yaml_key_of_items(other) = ret.val
        /\ dict_to_yaml_key(AsDict(ret.params.v)) = ret.val

\* a dict of three items inserted in an order other than the sorted one has
\* been encoded
C12_Witness ==
    /\ ret.op = "dict_to_yaml_key"
    /\ Len(ret.params.v) = 3
    /\ sorted_items(ret.params.v) # ret.params.v
    /\ ret.val = yaml_key_of_items(sorted_items(ret.params.v))

(***************************************************************************)
(* The files a caller selects with a file filter.                          *)
(***************************************************************************)
\* a file_filter: None, or a dict that may hold 'data_label' and values
\* required of parameters.  What it accepts under one key is [coll, v]: one
\* value v[1], or the list v of values
One(x) == [coll |-> FALSE, v |-> <<x>>]
Several(xs) == [coll |-> TRUE, v |-> xs]

\* the dict has no key 'data_label'
NoLabel == [given |-> FALSE, coll |-> FALSE, v |-> << >>]
Accepting(values) == [given |-> TRUE, coll |-> values.coll, v |-> values.v]

NoFilter == [none |-> TRUE, label |-> NoLabel, params |-> EmptyDict]

\* the filter of one label (None: no 'data_label') and one value for each
\* parameter
Filter(label, params) ==
    [none |-> FALSE,
     label |-> IF label = None THEN NoLabel ELSE Accepting(One(PyStr(label))),
     params |-> [x \in DOMAIN params |-> One(params[x])]]

\* the filter that accepts collections: labels is NoLabel or Accepting(..)
FilterIn(labels, params) == [none |-> FALSE, label |-> labels, params |-> params]

\* equals_or_in(value, values): value in values for a list, value == values
\* for anything else
equals_or_in(value, values) ==
    IF values.coll THEN \E i \in DOMAIN values.v : PyEq(value, values.v[i])
    ELSE PyEq(value, values.v[1])

\* the first position of a sequence of outcomes that holds an error, or 0
FirstError(outs) ==
    IF \E i \in DOMAIN outs : outs[i].err # ""
    THEN CHOOSE i \in DOMAIN outs : outs[i].err # "" /\ \A j \in 1..(i - 1) : outs[j].err = ""
    ELSE 0

\* the subsequence of seq at the positions of keep, from position i on
RECURSIVE SelectAt(_, _, _)
SelectAt(seq, keep, i) ==
    IF i > Len(seq) THEN << >>
    ELSE (IF i \in keep THEN <<seq[i]>> ELSE << >>) \o SelectAt(seq, keep, i + 1)

\* Catalog.get_files(file_filter): [err, val]; a file passes when its label
\* is the accepted one and its params hold every filtered key (a KeyError
\* skips the file) with the filtered value
get_files(s, file_filter) ==
    LET \* accepted_labels is [] when the dict has no 'data_label'
        accepted_labels_given ==
            file_filter.label.given
            /\ ~(file_filter.label.coll /\ file_filter.label.v = << >>)
        Passes(found) ==
            /\ accepted_labels_given
                  => equals_or_in(PyStr(found.val[1]), file_filter.label)
            /\ \A key \in DOMAIN file_filter.params :
                  /\ key \in DOMAIN found.val[2]
                  /\ equals_or_in(found.val[2][key], file_filter.params[key])
        Filtered(found, bad) ==
            IF bad # 0 THEN [err |-> found[bad].err, val |-> << >>]
            ELSE [err |-> "",
                  val |-> SelectAt(s.d.files, {i \in DOMAIN found : Passes(found[i])}, 1)]
        Found(found) == Filtered(found, FirstError(found))
    IN  IF file_filter.none THEN [err |-> "", val |-> s.d.files]
        ELSE Found([i \in DOMAIN s.d.files |-> get_data_label_params(s, s.d.files[i])])

(***************************************************************************)
(* Changing the parameters of cataloged files and the schema.              *)
(***************************************************************************)
\* Catalog.get_parameters(filename): the params of get_data_label_params,
\* configured once more: [err, val]
get_parameters(s, filename) ==
    LET Again(found) ==
            IF found.err # "" THEN [err |-> found.err, val |-> EmptyDict]
            ELSE configure_parameters(s, found.val[2])
    IN  Again(get_data_label_params(s, filename))

\* Catalog.update_file_params(filename, data_label, params, save=do_save);
\* data_label = None and params not given are looked up from the filename
update_file_params(s, filename, data_label, params, do_save) ==
    LET \* the catalog is saved
        Stored(s4) == Ok(IF do_save THEN save(s4) ELSE s4, None)
        \* the new entry, with the filename of the entry popped, goes into the
        \* map of data_label
        Added(s3, label, conf, old_yaml_params) ==
            IF label \notin DOMAIN s3.d.entries THEN Raise(s3, "KeyError")
            ELSE Stored([s3 EXCEPT !.d.entries[label] =
                            Update(@, [k \in {dict_to_yaml_key(conf)} |->
                                          [params |-> conf,
                                           filename |-> old_yaml_params.filename]])])
        \* the entry at the old yaml key leaves the map of the old label
        Popped(s2, label, conf, old_data_label, old_yaml_key) ==
            IF old_data_label \notin DOMAIN s2.d.entries
               \/ old_yaml_key \notin DOMAIN s2.d.entries[old_data_label]
            THEN Raise(s2, "KeyError")
            ELSE Added([s2 EXCEPT !.d.entries[old_data_label] = Without(@, old_yaml_key)],
                       label, conf, s2.d.entries[old_data_label][old_yaml_key])
        \* the pair of the file is replaced
        Replaced(label, conf, file_index) ==
            IF file_index = 0 THEN Raise(s, "FileNotFoundError")
            ELSE Popped([s EXCEPT !.d.pairs[file_index] = <<label, conf, "tuple">>],
                        label, conf, s.d.pairs[file_index][1],
                        dict_to_yaml_key(s.d.pairs[file_index][2]))
        Configured(label, conf) ==
            IF conf.err # "" THEN Raise(s, conf.err)
            ELSE Replaced(label, conf.val, Index(s.d.files, filename))
        WithParams(label, got) ==
            IF got.err # "" THEN Raise(s, got.err)
            ELSE Configured(label, configure_parameters(s, got.val))
        WithLabel(found) ==
            IF found.err # "" THEN Raise(s, found.err)
            ELSE WithParams(found.val[1],
                            IF params.given THEN [err |-> "", val |-> params.v]
                            ELSE get_parameters(s, filename))
    IN  WithLabel(IF data_label = None THEN get_data_label_params(s, filename)
                  ELSE [err |-> "", val |-> <<data_label, EmptyDict>>])

\* the names of the builtin types get_builtin finds
BuiltinTypes == {"int", "float", "str", "bool", "list"}

\* Catalog.add_parameter_default(new_parameter, parameter_type, default_value);
\* default_value is [given, v], not given being the sentinel; a
\* parameter_type that names no builtin (None when it is left out) makes
\* get_builtin raise KeyError
add_parameter_default(s, new_parameter, parameter_type, default_value) ==
    IF ~default_value.given THEN Raise(s, "ValueError")
    ELSE IF s.td.none THEN Raise(s, "TypeError")
    ELSE IF parameter_type \notin BuiltinTypes THEN Raise(s, "KeyError")
    ELSE Ok(save([s EXCEPT
                    !.td.ann = Update(@, [x \in {new_parameter} |-> parameter_type]),
                    !.d.ptypes.v = Update(@, [x \in {new_parameter} |-> parameter_type]),
                    !.d.defaults = Update(@, [x \in {new_parameter} |-> default_value.v])]),
            None)

\* Catalog.add_parameter_defaults(new_parameters, defaults) for the dicts
\* zipped from names, types and defaults of one length, from item i on
RECURSIVE add_parameter_defaults(_, _, _, _, _)
add_parameter_defaults(s, names, types, defaults, i) ==
    LET Next1(added) ==
            IF added.err # "" THEN added
            ELSE add_parameter_defaults(added.s, names, types, defaults, i + 1)
    IN  IF i > Len(names) THEN Ok(s, None)
        ELSE Next1(add_parameter_default(s, names[i], types[i],
                                         [given |-> TRUE, v |-> defaults[i]]))

\* the transform a caller passes: None (the identity), or lambda x: x * 2,
\* which doubles a number, repeats a str and raises TypeError on None
Transforms == {None, "x * 2"}
ApplyTransform(transform, x) ==
    IF transform = None THEN [err |-> "", val |-> x]
    ELSE CASE x.t = "int" -> [err |-> "", val |-> PyInt(2 * ParseInt(x.v))]
           [] x.t = "bool" -> [err |-> "", val |-> PyInt(IF x.v = "True" THEN 2 ELSE 0)]
           [] x.t = "str" -> [err |-> "", val |-> PyStr(x.v \o x.v)]
           [] OTHER -> [err |-> "TypeError", val |-> x]

\* the loop of Catalog.transmute_parameter over self.get_files(None), from
\* file i on.  new_param_name is [kind, names]: kind "str" for one name and
\* "list" for a list of names, which comes with transform = None
RECURSIVE transmute_loop(_, _, _, _, _)
transmute_loop(s, i, old_param_name, new_param_name, transform) ==
    LET Updated(updated) ==
            IF updated.err # "" THEN updated
            ELSE transmute_loop(updated.s, i + 1, old_param_name, new_param_name,
                                transform)
        Transformed(data_label, rest, new_value) ==
            IF new_value.err # "" THEN Raise(s, new_value.err)
            ELSE Updated(update_file_params(
                    s, s.d.files[i], data_label,
                    [given |-> TRUE,
                     v |-> Update(rest, [x \in {new_param_name.names[k] :
                                                   k \in DOMAIN new_param_name.names}
                                            |-> new_value.val])],
                    FALSE))
        Found(found) ==
            IF found.err # "" THEN Raise(s, found.err)
            ELSE IF old_param_name \notin DOMAIN found.val[2]
            THEN transmute_loop(s, i + 1, old_param_name, new_param_name, transform)
            ELSE Transformed(found.val[1], Without(found.val[2], old_param_name),
                             IF new_param_name.kind = "list"
                             THEN [err |-> "", val |-> found.val[2][old_param_name]]
                             ELSE ApplyTransform(transform,
                                                 found.val[2][old_param_name]))
    IN  IF i > Len(s.d.files) THEN Ok(s, None)
        ELSE Found(get_data_label_params(s, s.d.files[i]))

\* the same loop over the list get_files built for a file filter
RECURSIVE transmute_each(_, _, _, _, _)
transmute_each(s, files, old_param_name, new_param_name, transform) ==
    LET Updated(updated) ==
            IF updated.err # "" THEN updated
            ELSE transmute_each(updated.s, Tail(files), old_param_name, new_param_name,
                                transform)
        Transformed(data_label, rest, new_value) ==
            IF new_value.err # "" THEN Raise(s, new_value.err)
            ELSE Updated(update_file_params(
                    s, Head(files), data_label,
                    [given |-> TRUE,
                     v |-> Update(rest, [x \in {new_param_name.names[k] :
                                                   k \in DOMAIN new_param_name.names}
                                            |-> new_value.val])],
                    FALSE))
        Found(found) ==
            IF found.err # "" THEN Raise(s, found.err)
            ELSE IF old_param_name \notin DOMAIN found.val[2]
            THEN transmute_each(s, Tail(files), old_param_name, new_param_name, transform)
            ELSE Transformed(found.val[1], Without(found.val[2], old_param_name),
                             IF new_param_name.kind = "list"
                             THEN [err |-> "", val |-> found.val[2][old_param_name]]
                             ELSE ApplyTransform(transform,
                                                 found.val[2][old_param_name]))
    IN  IF files = << >> THEN Ok(s, None)
        ELSE Found(get_data_label_params(s, Head(files)))

\* Catalog.transmute_parameter(old_param_name, new_param_name, new_param_type,
\* transform, default) with file_filter = None.  new_param_type is [kind,
\* types] like new_param_name; default is [given, kind, v], v a sequence of
\* as many values as there are names
transmute_parameter(s, old_param_name, new_param_name, new_param_type, transform, default) ==
    LET listlike == new_param_name.kind = "list"
        names == {new_param_name.names[k] : k \in DOMAIN new_param_name.names}
        \* Saving after everything is complete
        Looped(looped) == IF looped.err # "" THEN looped ELSE Ok(save(looped.s), None)
        Declared(added) ==
            IF added.err # "" THEN added
            ELSE Looped(transmute_loop(added.s, 1, old_param_name, new_param_name,
                                       transform))
        \* the new names, types and defaults enter the schema
        Declare(s2, defaults) ==
            Declared(IF listlike
                     THEN add_parameter_defaults(s2, new_param_name.names,
                                                 new_param_type.types, defaults, 1)
                     ELSE add_parameter_default(s2, new_param_name.names[1],
                                                new_param_type.types[1],
                                                [given |-> TRUE, v |-> defaults[1]]))
        \* the old name leaves the annotations, the types and the defaults
        Erased(defaults) ==
            IF old_param_name \in names THEN Declare(s, defaults)
            ELSE IF s.td.none THEN Raise(s, "AttributeError")
            ELSE Declare([s EXCEPT !.td.ann = Without(@, old_param_name),
                                   !.d.ptypes.v = Without(@, old_param_name),
                                   !.d.defaults = Without(@, old_param_name)],
                         defaults)
    IN  IF new_param_name.kind = "none" THEN Raise(s, "TypeError")
        ELSE IF listlike /\ (new_param_type.kind # "list"
                             \/ Len(new_param_type.types) # Len(new_param_name.names))
        THEN Raise(s, "AssertionError")
        ELSE IF ~default.given
        THEN Erased(IF ~listlike /\ new_param_name.names[1] = old_param_name
                       /\ old_param_name \in DOMAIN s.d.defaults
                    THEN <<s.d.defaults[old_param_name]>>
                    ELSE [k \in DOMAIN new_param_name.names |-> PyNone])
        ELSE IF listlike /\ (default.kind # "list"
                             \/ Len(default.v) # Len(new_param_name.names))
        THEN Raise(s, "ValueError")
        ELSE Erased(default.v)

\* Catalog.transmute_parameter(old_param_name, .., file_filter=file_filter)
\* for a file filter that is not None: the old name stays declared, and the
\* loop walks the list get_files built
transmute_filtered(s, old_param_name, new_param_name, new_param_type, transform, default, file_filter) ==
    LET \* Saving after everything is complete
        Looped(looped) == IF looped.err # "" THEN looped ELSE Ok(save(looped.s), None)
        Listed(s3, found) ==
            IF found.err # "" THEN Raise(s3, found.err)
            ELSE Looped(transmute_each(s3, found.val, old_param_name, new_param_name,
                                       transform))
        Declared(added) ==
            IF added.err # "" THEN added
            ELSE Listed(added.s, get_files(added.s, file_filter))
        \* the new names, types and defaults enter the schema
        Declare(defaults) ==
            Declared(IF new_param_name.kind = "list"
                     THEN add_parameter_defaults(s, new_param_name.names,
                                                 new_param_type.types, defaults, 1)
                     ELSE add_parameter_default(s, new_param_name.names[1],
                                                new_param_type.types[1],
                                                [given |-> TRUE, v |-> defaults[1]]))
    IN  IF new_param_name.kind = "none" THEN Raise(s, "TypeError")
        ELSE IF new_param_name.kind = "list"
                /\ (new_param_type.kind # "list"
                    \/ Len(new_param_type.types) # Len(new_param_name.names))
        THEN Raise(s, "AssertionError")
        ELSE IF ~default.given
        THEN Declare(IF new_param_name.kind # "list"
                        /\ new_param_name.names[1] = old_param_name
                        /\ old_param_name \in DOMAIN s.d.defaults
                     THEN <<s.d.defaults[old_param_name]>>
                     ELSE [k \in DOMAIN new_param_name.names |-> PyNone])
        ELSE IF new_param_name.kind = "list"
                /\ (default.kind # "list" \/ Len(default.v) # Len(new_param_name.names))
        THEN Raise(s, "ValueError")
        ELSE Declare(default.v)

\* Catalog.remove_parameter(param_name) with file_filter = None
remove_parameter(s, param_name) ==
    transmute_parameter(s, param_name, [kind |-> "list", names |-> << >>],
                        [kind |-> "list", types |-> << >>], None,
                        [given |-> TRUE, kind |-> "list", v |-> << >>])

(***************************************************************************)
(* Searching the catalog.                                                  *)
(***************************************************************************)
\* the loop of Catalog.purge(file_filter) over the list get_files built for
\* a filter: remove_file(filename=filename, save=False) for each name
RECURSIVE purge_each(_, _, _)
purge_each(s, names, denied) ==
    LET Step(removed) ==
            IF removed.err # "" THEN removed
            ELSE purge_each(removed.s, Tail(names), denied)
    IN  IF names = << >> THEN Ok(s, None)
        ELSE Step(remove_file(s, Head(names), None, NoParams, TRUE, FALSE, denied))

\* Catalog.purge(file_filter): the loop, then one save()
purge_filtered(s, file_filter, denied) ==
    LET Saved(looped) == IF looped.err # "" THEN looped ELSE Ok(save(looped.s), None)
        Listed(found) ==
            IF found.err # "" THEN Raise(s, found.err)
            ELSE Saved(purge_each(s, found.val, denied))
    IN  IF file_filter.none THEN purge(s, denied)
        ELSE Listed(get_files(s, file_filter))

\* len(set(params.items()).intersection(set(file_params.items())))
Agreement(params, file_params) ==
    Cardinality({x \in DOMAIN params \cap DOMAIN file_params :
                    PyEq(params[x], file_params[x])})

\* the loop of Catalog.closest_params over the files, from file i on, with
\* best = [max_agreement, data_labels, best_params] so far: [err, val]
RECURSIVE closest_scan(_, _, _, _, _)

\* a scan that keeps only the first of the files with the best agreement
closest_scan_without_ties(s, params, files, i, best) ==
    LET Scored(data_label, file_params, agreement) ==
            closest_scan(s, params, files, i + 1,
                IF agreement > best.max_agreement
                THEN [max_agreement |-> agreement, data_labels |-> <<data_label>>,
                      best_params |-> <<file_params>>]
                ELSE best)
        Got(found, got) ==
            IF found.err # "" THEN [err |-> found.err, val |-> best]
            ELSE IF got.err # "" THEN [err |-> got.err, val |-> best]
            ELSE Scored(found.val[1], got.val, Agreement(params, got.val))
    IN  IF i > Len(files) THEN [err |-> "", val |-> best]
        ELSE Got(get_data_label_params(s, files[i]), get_parameters(s, files[i]))

closest_scan(s, params, files, i, best) ==
    LET Scored(data_label, file_params, agreement) ==
            closest_scan(s, params, files, i + 1,
                IF agreement > best.max_agreement
                THEN [max_agreement |-> agreement, data_labels |-> <<data_label>>,
                      best_params |-> <<file_params>>]
                ELSE IF agreement = best.max_agreement
                THEN [best EXCEPT !.data_labels = Append(@, data_label),
                                  !.best_params = Append(@, file_params)]
                ELSE best)
        Got(found, got) ==
            IF found.err # "" THEN [err |-> found.err, val |-> best]
            ELSE IF got.err # "" THEN [err |-> got.err, val |-> best]
            ELSE Scored(found.val[1], got.val, Agreement(params, got.val))
    IN  IF i > Len(files) THEN [err |-> "", val |-> best]
        ELSE Got(get_data_label_params(s, files[i]), get_parameters(s, files[i]))

\* Catalog.closest_params(params, file_filter): [err, val], val being
\* [max_agreement, data_labels, best_params]
closest_params(s, params, file_filter) ==
    LET \* what the check of entry k of the best ones raises
        Asserted(label, test_params, found, max_agreement) ==
            IF ~DictEq(params, test_params) THEN ""
            ELSE IF found.err # "" THEN found.err
            ELSE IF ~(found.val /\ max_agreement = -1) THEN "AssertionError"
            ELSE ""
        Checked(best, raised) == [err |-> raised, val |-> best]
        Check(conf, best) ==
            Checked(best,
                    LET outs == [k \in DOMAIN best.data_labels |->
                                    [err |-> Asserted(best.data_labels[k], best.best_params[k],
                                                      has_file(s, None, best.data_labels[k],
                                                               [given |-> TRUE, v |-> conf]),
                                                      best.max_agreement)]]
                    IN  IF FirstError(outs) = 0 THEN "" ELSE outs[FirstError(outs)].err)
        Scanned(conf, scanned) ==
            IF scanned.err # "" THEN scanned
            ELSE Check(conf,
                       IF scanned.val.max_agreement = Cardinality(DOMAIN conf)
                       THEN [scanned.val EXCEPT !.max_agreement = -1]
                       ELSE scanned.val)
        Listed(conf, files) ==
            IF files.err # "" THEN [err |-> files.err, val |-> None]
            ELSE Scanned(conf, closest_scan(s, conf, files.val, 1,
                                            [max_agreement |-> 0, data_labels |-> << >>,
                                             best_params |-> << >>]))
        Configured(conf) ==
            IF conf.err # "" THEN [err |-> conf.err, val |-> None]
            ELSE Listed(conf.val, get_files(s, file_filter))
    IN  Configured(configure_parameters(s, params))

(***************************************************************************)
(* A catalog with a declared schema whose files are re-described and whose *)
(* schema is changed.                                                      *)
(***************************************************************************)
\* number of filenames new_filename generates in one run
MaxNewFiles == 2

\* the schema the catalog is made with: parameters = {'n': 'int'}
SchemaOneInt == [none |-> FALSE, v |-> [x \in {"n"} |-> "int"]]

\* the parameter dicts callers pass to a catalog with that schema
SchemaParamInputs == {[x \in {"n"} |-> PyInt(1)], [x \in {"n"} |-> PyInt(2)]}

InitSchema ==
    /\ verbose = 10
    /\ overwrite_behavior = "skip"
    /\ allow_undeclared_parameters \in BOOLEAN
    /\ has_allow_undeclared_parameters = TRUE
    /\ catalog_dict = NewCatalogDict(SchemaOneInt, EmptyDict)
    /\ typedparameterdict = [none |-> FALSE, ann |-> SchemaOneInt.v]
    /\ disk = ExternalFiles
    /\ yaml_file = SavedFile(catalog_dict)
    /\ uuid_count = 0
    /\ ret = NoCall
    /\ loader = NoLoad
    /\ prompt = NoPrompt
    /\ writer = NoSave

\* the parameters are changed once the files of the run are cataloged, and
\* a run changes the schema it was made with once
Cataloged ==
    /\ uuid_count = MaxNewFiles
    /\ typedparameterdict = [none |-> FALSE, ann |-> SchemaOneInt.v]
    /\ catalog_dict.ptypes = SchemaOneInt
    /\ DOMAIN catalog_dict.defaults = {}

\* every file still has the parameters new_filename stored for it, as strings
Registered ==
    \A i \in DOMAIN catalog_dict.pairs :
        \A x \in DOMAIN catalog_dict.pairs[i][2] : catalog_dict.pairs[i][2][x].t = "str"

\* the state a schema operation leaves; ret keeps its name and its exception
Applied(out, op) ==
    /\ catalog_dict' = out.s.d
    /\ typedparameterdict' = out.s.td
    /\ disk' = out.s.disk
    /\ yaml_file' = out.s.yaml
    /\ uuid_count' = out.s.uuid
    /\ ret' = [NoCall EXCEPT !.op = op, !.err = out.err]
    /\ UNCHANGED <<config_vars, load_vars>>

\* new_filename for a file the caller has not written (yet)
NewEntry ==
    \E l \in Labels, p \in SchemaParamInputs, e \in Extensions :
        /\ uuid_count < MaxNewFiles
        /\ Collision(l, p) = {}
        /\ Applied(new_filename(State, l, p, e, None, None, None, {}), "new_filename")

\* the calls of update_file_params: for a file of the catalog or another
\* one, with or without data_label and params
UpdateFileParamsCalls ==
    [f : Indexed \cup ExternalFiles, l : Labels \cup {None},
     p : {Params(q) : q \in SchemaParamInputs} \cup {NoParams}]

UpdateFileParams ==
    \E c \in UpdateFileParamsCalls :
        /\ Indexed # {}
        /\ Cataloged
        /\ Registered
        /\ Applied(update_file_params(State, c.f, c.l, c.p, TRUE), "update_file_params")

\* the values of parameter name held by the files of the catalog
StoredValues(name) ==
    {catalog_dict.pairs[i][2][name] :
        i \in {j \in DOMAIN catalog_dict.pairs : name \in DOMAIN catalog_dict.pairs[j][2]}}

\* lambda x: x * 2 is applied to the numbers and digits whose doubles are
\* among the integers of the model
Doubles(transform, name) ==
    transform # None => \A x \in StoredValues(name) : x.v \in {"0", "1", "2", "True", "False"}

\* the calls of transmute_parameter: the declared 'n' is renamed to 'k' or
\* keeps its name, with or without a type for the new parameter
TransmuteCalls ==
    [old : {"n"}, new : {"k", "n"}, type : {None, "int", "bool"}, transform : Transforms]

TransmuteParameter ==
    \E c \in TransmuteCalls :
        /\ Cataloged
        /\ Doubles(c.transform, c.old)
        /\ Applied(transmute_parameter(State, c.old, [kind |-> "str", names |-> <<c.new>>],
                                       [kind |-> "str", types |-> <<c.type>>], c.transform,
                                       [given |-> FALSE, kind |-> "str", v |-> << >>]),
                   "transmute_parameter")

RemoveParameter ==
    \E name \in {"n"} :
        /\ Cataloged
        /\ Applied(remove_parameter(State, name), "remove_parameter")

\* the calls of add_parameter_default: for a new name or a declared one,
\* with or without a default
AddParameterDefaultCalls ==
    [name : {"k", "n"}, type : {"str"},
     default : {[given |-> FALSE, v |-> PyNone], [given |-> TRUE, v |-> PyInt(1)]}]

AddParameterDefault ==
    \E c \in AddParameterDefaultCalls :
        /\ Cataloged
        /\ Applied(add_parameter_default(State, c.name, c.type, c.default),
                   "add_parameter_default")

\* the file filters callers pass
FileFilters == {NoFilter, Filter("a", EmptyDict), Filter(None, [x \in {"n"} |-> PyInt(1)])}

\* the calls of closest_params
ClosestParamsCalls == [p : SchemaParamInputs, file_filter : FileFilters]

\* closest_params changes nothing
ClosestParams ==
    \E c \in ClosestParamsCalls :
        /\ ret' = [NoCall EXCEPT !.op = "closest_params",
                                 !.err = closest_params(State, c.p, c.file_filter).err]
        /\ UNCHANGED <<catalog_vars, config_vars, load_vars>>

NextSchema ==
    NewEntry \/ UpdateFileParams \/ TransmuteParameter \/ RemoveParameter
        \/ AddParameterDefault \/ ClosestParams

SpecSchema == InitSchema /\ [][NextSchema]_vars

(***************************************************************************)
(* Migrating a parameter.                                                  *)
(***************************************************************************)
\* the catalog declares 'n' as an int, every file was added by new_filename
\* with a value of 'n' and the three views agree
DeclaredAndFilled ==
    /\ Cataloged
    /\ Registered
    /\ ViewsAgree(catalog_dict)
    /\ \A i \in DOMAIN catalog_dict.pairs : "n" \in DOMAIN catalog_dict.pairs[i][2]

\* the int a file of the catalog was added with for 'n'
AddedWith(i) == ParseInt(catalog_dict.pairs[i][2]["n"].v)

\* after the call that left out, file i has 'k' = 2 * v and no 'n', is
\* found under 'k' = 2 * v and is not found under 'n' = v
Migrated(out, i) ==
    /\ DOMAIN out.s.d.pairs[i][2] = {"k"}
    /\ out.s.d.pairs[i][2]["k"] = PyInt(2 * AddedWith(i))
    /\ get_filename(out.s, catalog_dict.pairs[i][1],
                    Params([x \in {"k"} |-> PyInt(2 * AddedWith(i))]))
           = [err |-> "", val |-> catalog_dict.files[i]]
    /\ get_filename(out.s, catalog_dict.pairs[i][1],
                    Params([x \in {"n"} |-> PyInt(AddedWith(i))])).err
           \in {"FileNotFoundError", "ValueError"}

\* C13: on a catalog that declares the int 'n' and whose files were added
\* with 'n' = v, transmute_parameter('n', new_param_name='k', transform=
\* lambda x: x * 2), called as written or with new_param_type='int',
\* completes, and afterwards every file has 'k' = 2 * v and no 'n',
\* get_filename(label, {'k': 2 * v}) returns its filename and
\* get_filename(label, {'n': v}) fails as not found or against the schema.
C13_RenameWithTransformMigrates ==
    DeclaredAndFilled =>
        \E type \in {None, "int"} :
            LET out == transmute_parameter(State, "n", [kind |-> "str", names |-> <<"k">>],
                                           [kind |-> "str", types |-> <<type>>], "x * 2",
                                           [given |-> FALSE, kind |-> "str", v |-> << >>])
            IN  /\ out.err = ""
                /\ \A i \in DOMAIN catalog_dict.files : Migrated(out, i)

\* no two files of the catalog have one data label
LabelsDiffer ==
    \A i, j \in DOMAIN catalog_dict.pairs :
        catalog_dict.pairs[i][1] = catalog_dict.pairs[j][1] => i = j

\* after the call that left out, 'n' is neither declared nor held by a file,
\* and every file is at its position and is found under what is left of its
\* parameters
Removed(out) ==
    /\ "n" \notin DOMAIN out.s.td.ann
    /\ "n" \notin DOMAIN out.s.d.ptypes.v
    /\ "n" \notin DOMAIN out.s.d.defaults
    /\ out.s.d.files = catalog_dict.files
    /\ \A i \in DOMAIN out.s.d.pairs :
          /\ "n" \notin DOMAIN out.s.d.pairs[i][2]
          /\ get_filename(out.s, out.s.d.pairs[i][1], Params(out.s.d.pairs[i][2]))
                 = [err |-> "", val |-> catalog_dict.files[i]]

\* C14: on a catalog that declares 'n' and whose files carry it (one file
\* per data label, so that no two files are left with the same parameters),
\* remove_parameter('n') completes, and afterwards 'n' is absent from the
\* parameter types and the defaults, no file's parameters hold 'n', every
\* file keeps its position in `files` and get_filename(label, remaining
\* parameters) returns it.
C14_RemoveParameterDropsName ==
    DeclaredAndFilled /\ LabelsDiffer =>
        LET out == remove_parameter(State, "n")
        IN  out.err = "" /\ Removed(out)

\* the outcome of the call c of transmute_parameter in this state
Transmuted(c) ==
    transmute_parameter(State, c.old, [kind |-> "str", names |-> <<c.new>>],
                        [kind |-> "str", types |-> <<c.type>>], c.transform,
                        [given |-> FALSE, kind |-> "str", v |-> << >>])

\* the call c raised inside its loop over the files: the new parameter was
\* declared (its type names a builtin) and the call did not complete
FailedInLoop(c) ==
    /\ Cataloged
    /\ Doubles(c.transform, c.old)
    /\ c.type \in BuiltinTypes
    /\ Transmuted(c).err # ""

\* file i holds the new parameter in place of the old one after the call
MigratedFile(d, c, i) ==
    /\ d.pairs[i][1] = catalog_dict.pairs[i][1]
    /\ c.new \in DOMAIN d.pairs[i][2]
    /\ c.new # c.old => c.old \notin DOMAIN d.pairs[i][2]

\* file i and the entry of its label's map are what they were before the call
UntouchedFile(d, i) ==
    /\ d.pairs[i] = catalog_dict.pairs[i]
    /\ catalog_dict.pairs[i][1] \in DOMAIN catalog_dict.entries =>
          /\ catalog_dict.pairs[i][1] \in DOMAIN d.entries
          /\ \A key \in DOMAIN catalog_dict.entries[catalog_dict.pairs[i][1]] :
                catalog_dict.entries[catalog_dict.pairs[i][1]][key].filename
                    = catalog_dict.files[i]
                => /\ key \in DOMAIN d.entries[catalog_dict.pairs[i][1]]
                   /\ d.entries[catalog_dict.pairs[i][1]][key]
                          = catalog_dict.entries[catalog_dict.pairs[i][1]][key]

\* the catalog d, saved and loaded into a new instance, is d again
Reloads(s) ==
    LET out == load_attempt(NewInstance, save(s).yaml, "ScannerError")
    IN  out.end = "return" /\ out.self.installed /\ SameCatalog(out.self.d, s.d)

\* what a call c that failed at file k leaves
PartlyMigrated(out, c, k) ==
    /\ c.new \in DOMAIN out.s.td.ann /\ out.s.td.ann[c.new] = c.type
    /\ c.new \in DOMAIN out.s.d.ptypes.v /\ out.s.d.ptypes.v[c.new] = c.type
    /\ out.s.d.files = catalog_dict.files
    /\ Len(out.s.d.pairs) = Len(catalog_dict.pairs)
    /\ \A i \in 1..(k - 1) : MigratedFile(out.s.d, c, i)
    /\ \A i \in k..Len(catalog_dict.files) : UntouchedFile(out.s.d, i)
    /\ ViewsAgree(out.s.d)
    /\ Reloads(out.s)

\* C15: when transmute_parameter fails while it processes the k-th file, the
\* schema holds the new declaration, the files before the k-th are migrated,
\* the k-th and the later ones are untouched, the three views agree and the
\* catalog can be saved and loaded again.
C15_FailedMigrationLeavesPrefix ==
    \A c \in TransmuteCalls :
        FailedInLoop(c) =>
            \E k \in DOMAIN catalog_dict.files : PartlyMigrated(Transmuted(c), c, k)

(***************************************************************************)
(* Re-describing one file.                                                 *)
(***************************************************************************)
\* the outcome of the call c of update_file_params in this state
UpdatedBy(c) == update_file_params(State, c.f, c.l, c.p, TRUE)

\* the call changed neither the catalog dict nor the catalog file
NothingChanged(out) == out.s.d = catalog_dict /\ out.s.yaml = yaml_file

\* file j has its pair and its map entry as before the call
EntryKept(d, j) ==
    LET data_label == catalog_dict.pairs[j][1]
        yaml_key == dict_to_yaml_key(catalog_dict.pairs[j][2])
    IN  /\ d.pairs[j] = catalog_dict.pairs[j]
        /\ data_label \in DOMAIN d.entries
        /\ yaml_key \in DOMAIN d.entries[data_label]
        /\ d.entries[data_label][yaml_key] = catalog_dict.entries[data_label][yaml_key]

\* file i is now described by the pair of d, in the pairs list and in the map
\* of its new label, and no longer by the old key of its old label; the other
\* files are as before and the catalog file holds d
Replaced(out, i) ==
    LET d == out.s.d
        data_label == d.pairs[i][1]
        yaml_key == dict_to_yaml_key(d.pairs[i][2])
        old_data_label == catalog_dict.pairs[i][1]
        old_yaml_key == dict_to_yaml_key(catalog_dict.pairs[i][2])
    IN  /\ d.files = catalog_dict.files
        /\ Len(d.pairs) = Len(catalog_dict.pairs)
        /\ data_label \in DOMAIN d.entries
        /\ yaml_key \in DOMAIN d.entries[data_label]
        /\ d.entries[data_label][yaml_key].filename = catalog_dict.files[i]
        /\ <<old_data_label, old_yaml_key>> # <<data_label, yaml_key>> =>
              old_yaml_key \notin DOMAIN d.entries[old_data_label]
        /\ \A j \in DOMAIN catalog_dict.files \ {i} : EntryKept(d, j)
        /\ out.s.yaml = SavedFile(d)

\* C16: on a catalog whose three views agree, update_file_params(filename,
\* data_label, params) either returns with the entry replaced in the pairs
\* list and in the per-label maps, `files` and every other entry unchanged
\* and the catalog saved, or raises with the catalog dict and the catalog
\* file unchanged.
C16_UpdateFileParamsIsAtomic ==
    ViewsAgree(catalog_dict) =>
        \A c \in UpdateFileParamsCalls :
            LET out == UpdatedBy(c)
            IN  IF out.err = "" THEN Replaced(out, Index(catalog_dict.files, c.f))
                ELSE NothingChanged(out)

(***************************************************************************)
(* The closest parameters.                                                 *)
(***************************************************************************)
\* the number of (name, value) pairs the cast query shares with the
\* parameters of a file
Score(query, file_params) ==
    Cardinality({x \in DOMAIN query : x \in DOMAIN file_params
                                       /\ PyEq(query[x], file_params[x])})

\* the greatest of the scores of the files of the sequence (0 for no file)
MaxScore(query, files) ==
    IF files = << >> THEN 0
    ELSE CHOOSE m \in 0..Cardinality(DOMAIN query) :
            /\ \E i \in DOMAIN files : Score(query, get_parameters(State, files[i]).val) = m
            /\ \A i \in DOMAIN files : Score(query, get_parameters(State, files[i]).val) <= m

\* the files of the sequence with the greatest score, in the order of `files`
BestFiles(query, files) ==
    SelectAt(files, {i \in DOMAIN files :
                        Score(query, get_parameters(State, files[i]).val)
                            = MaxScore(query, files)}, 1)

\* what closest_params is to return for the cast query and the files the
\* filter lets through
Closest(query, files) ==
    [max_agreement |-> IF MaxScore(query, files) = Cardinality(DOMAIN query) THEN -1
                       ELSE MaxScore(query, files),
     data_labels |-> [i \in DOMAIN BestFiles(query, files) |->
                        get_data_label_params(State, BestFiles(query, files)[i]).val[1]],
     best_params |-> [i \in DOMAIN BestFiles(query, files) |->
                        get_parameters(State, BestFiles(query, files)[i]).val]]

\* C17: when closest_params(query, filter) returns, it returns the files of
\* get_files(filter) whose parameters share the most (name, value) pairs
\* with the cast query, ties included, as a list of labels and a list of
\* parameters in `files` order, with that greatest number, or -1 when it is
\* the number of pairs of the cast query.
C17_ClosestParamsReturnsBest ==
    \A c \in ClosestParamsCalls :
        LET out == closest_params(State, c.p, c.file_filter)
        IN  out.err = "" =>
                out.val = Closest(configure_parameters(State, c.p).val,
                                  get_files(State, c.file_filter).val)

\* closest_params has returned two files tied at one shared pair of a query
\* of two pairs
C17_Witness ==
    /\ ret.op = "closest_params" /\ ret.err = ""
    /\ \E c \in ClosestParamsCalls :
          LET out == closest_params(State, c.p, c.file_filter)
          IN  /\ out.err = ""
              /\ out.val.max_agreement = 1
              /\ Len(out.val.data_labels) = 2
              /\ Cardinality(DOMAIN configure_parameters(State, c.p).val) = 2

\* the files closest_params found for the call c whose parameters are the
\* cast query: the positions in the lists it built
PerfectMatches(c, out) ==
    {k \in DOMAIN out.val.best_params :
        DictEq(configure_parameters(State, c.p).val, out.val.best_params[k])}

\* C18: in every reachable state, each file closest_params finds with
\* exactly the parameters of the query is found by has_file(label, query),
\* and closest_params does not end in an assertion error.
C18_PerfectMatchIsRetrievable ==
    \A c \in ClosestParamsCalls :
        LET out == closest_params(State, c.p, c.file_filter)
        IN  out.err \in {"", "AssertionError"} =>
                /\ \A k \in PerfectMatches(c, out) :
                      has_file(State, None, out.val.data_labels[k],
                               Params(configure_parameters(State, c.p).val))
                          = [err |-> "", val |-> TRUE]
                /\ out.err = ""

(***************************************************************************)
(* Casting parameters to the declared schema.                              *)
(***************************************************************************)
\* the schemas and defaults of the catalogs that cast: 'n' is required, or
\* has a default, and 'k' is an optional bool or str
CastSetups ==
    {[ann |-> [x \in {"n"} |-> "int"], defaults |-> EmptyDict],
     [ann |-> [x \in {"n"} |-> "int"], defaults |-> [x \in {"n"} |-> PyInt(1)]],
     [ann |-> [x \in {"k", "n"} |-> IF x = "k" THEN "bool" ELSE "int"],
      defaults |-> EmptyDict],
     [ann |-> [x \in {"k", "n"} |-> IF x = "k" THEN "bool" ELSE "int"],
      defaults |-> [x \in {"k"} |-> PyStr("f")]],
     [ann |-> [x \in {"k", "n"} |-> IF x = "k" THEN "str" ELSE "int"],
      defaults |-> [x \in {"k"} |-> PyNone]]}

\* the values and the dicts callers pass to configure_parameters
CastValues == {PyInt(1), PyBool(TRUE), PyStr("2"), PyStr("x"), PyNone}
CastInputs == UNION {[keys -> CastValues] : keys \in SUBSET Names}

InitCast ==
    /\ verbose = 10
    /\ overwrite_behavior = "skip"
    /\ allow_undeclared_parameters \in BOOLEAN
    /\ has_allow_undeclared_parameters = TRUE
    /\ \E setup \in CastSetups :
          /\ catalog_dict = NewCatalogDict([none |-> FALSE, v |-> setup.ann], setup.defaults)
          /\ typedparameterdict = [none |-> FALSE, ann |-> setup.ann]
    /\ disk = ExternalFiles
    /\ yaml_file = SavedFile(catalog_dict)
    /\ uuid_count = 0
    /\ ret = NoCall
    /\ loader = NoLoad
    /\ prompt = NoPrompt
    /\ writer = NoSave

\* a caller casts a dict
ConfigureParameters ==
    \E input \in CastInputs :
        /\ ret' = [op |-> "configure_parameters",
                   err |-> configure_parameters(State, input).err,
                   val |-> configure_parameters(State, input).val,
                   label |-> None, params |-> Params(input)]
        /\ UNCHANGED <<catalog_vars, config_vars, load_vars>>

NextCast == ConfigureParameters

SpecCast == InitCast /\ [][NextCast]_vars

\* keytype(value) returns for the builtin keytype; for a str cast to bool,
\* the str is one the cast to bool knows
Coercible(keytype, x) ==
    CASE keytype = "int" -> x.t \in {"int", "bool"} \/ (x.t = "str" /\ IsIntLiteral(x.v))
      [] keytype = "bool" ->
            x.t # "str" \/ Lower(x.v) \in {"true", "t", "1", "false", "f", "0"}
      [] OTHER -> keytype = "str"

\* the value the cast has for the declared name x: the given one, or else
\* the default
Source(input, x) == IF x \in DOMAIN input THEN input[x] ELSE catalog_dict.defaults[x]

\* what the claim says of the keys of a cast of input that ended with err and
\* returned val
KeysChecked(input, err, val) ==
    LET ann == typedparameterdict.ann
        defaults == catalog_dict.defaults
    IN  /\ (~allow_undeclared_parameters /\ ~(DOMAIN input \subseteq DOMAIN ann)) => err # ""
        /\ (~allow_undeclared_parameters
               /\ ~(DOMAIN ann \subseteq DOMAIN input \cup DOMAIN defaults)) => err # ""
        /\ (allow_undeclared_parameters /\ err = "") =>
              \A x \in DOMAIN input \ DOMAIN ann : x \in DOMAIN val /\ val[x] = input[x]
        /\ err = "" =>
              /\ DOMAIN ann \subseteq DOMAIN val
              /\ \A x \in DOMAIN ann : val[x] = CastValue(ann[x], Source(input, x)).val

\* the declared names whose value in the cast of input is given or has a
\* default
Valued(input) ==
    {x \in DOMAIN typedparameterdict.ann : x \in DOMAIN input \cup DOMAIN catalog_dict.defaults}

SchemaKept(out) ==
    /\ out.s.td = typedparameterdict
    /\ out.s.d.ptypes = catalog_dict.ptypes
    /\ out.s.d.defaults = catalog_dict.defaults

\* C20: add_parameter_default(name, type, default) raises when name is
\* declared, and the declared types and defaults are then what they were;
\* it raises when no default is given, and the declared types, the defaults
\* and the catalog file are then what they were.
C20_AddParameterDefaultRejects ==
    \A c \in AddParameterDefaultCalls :
        LET out == add_parameter_default(State, c.name, c.type, c.default)
        IN  /\ c.name \in DOMAIN typedparameterdict.ann =>
                  out.err # "" /\ SchemaKept(out)
            /\ ~c.default.given =>
                  out.err # "" /\ SchemaKept(out) /\ out.s.yaml = yaml_file

(***************************************************************************)
(* A catalog whose declared parameters and defaults are changed freely.    *)
(***************************************************************************)
\* a removal that leaves the default of the parameter in place
remove_parameter_default_keeps_default(s, parameter) ==
    IF parameter \notin DOMAIN s.d.defaults THEN Raise(s, "ValueError")
    ELSE Ok(save([s EXCEPT !.td.ann = Without(@, parameter),
                           !.d.ptypes.v = Without(@, parameter)]), None)

\* Catalog.remove_parameter_default(parameter): the default, the annotation
\* and the parameter type are popped one after the other, then save()
remove_parameter_default(s, parameter) ==
    LET Typed(s2) ==
            IF s2.d.ptypes.none THEN Raise(s2, "AttributeError")
            ELSE IF parameter \notin DOMAIN s2.d.ptypes.v THEN Raise(s2, "KeyError")
            ELSE Ok(save([s2 EXCEPT !.d.ptypes.v = Without(@, parameter)]), None)
        Annotated(s1) ==
            IF s1.td.none THEN Raise(s1, "AttributeError")
            ELSE IF parameter \notin DOMAIN s1.td.ann THEN Raise(s1, "KeyError")
            ELSE Typed([s1 EXCEPT !.td.ann = Without(@, parameter)])
    IN  IF parameter \notin DOMAIN s.d.defaults THEN Raise(s, "ValueError")
        ELSE Annotated([s EXCEPT !.d.defaults = Without(@, parameter)])

\* number of files the catalog of this section gets
MaxDefaultsFiles == 1

\* the parameters and default_parameters the catalog is made with
DefaultsSetups ==
    {[ann |-> [x \in {"n"} |-> "int"], defaults |-> EmptyDict],
     [ann |-> [x \in {"k", "n"} |-> "int"], defaults |-> [x \in {"k"} |-> PyInt(1)]]}

InitDefaults ==
    /\ verbose = 10
    /\ overwrite_behavior = "skip"
    /\ allow_undeclared_parameters \in BOOLEAN
    /\ has_allow_undeclared_parameters = TRUE
    /\ \E setup \in DefaultsSetups :
          /\ catalog_dict = NewCatalogDict([none |-> FALSE, v |-> setup.ann], setup.defaults)
          /\ typedparameterdict = [none |-> FALSE, ann |-> setup.ann]
    /\ disk = ExternalFiles
    /\ yaml_file = SavedFile(catalog_dict)
    /\ uuid_count = 0
    /\ ret = NoCall
    /\ loader = NoLoad
    /\ prompt = NoPrompt
    /\ writer = NoSave

\* the file is cataloged before the schema is changed
DefaultsNewFilename ==
    /\ ret.op = "init"
    /\ uuid_count < MaxDefaultsFiles
    /\ Applied(new_filename(State, "a", [x \in {"n"} |-> PyInt(1)], ".txt", None, None,
                            None, {}),
               "new_filename")

DefaultsRemoveFile ==
    \E f \in Indexed :
        /\ ~catalog_dict.isNone
        /\ Applied(remove_file(State, f, None, NoParams, FALSE, TRUE, {}), "remove_file")

\* the calls of add_parameter_default, with and without a type and a default
DefaultsAddCalls ==
    [name : {"k", "n"}, type : {None, "int"},
     default : {[given |-> FALSE, v |-> PyNone], [given |-> TRUE, v |-> PyInt(1)]}]

DefaultsAddParameterDefault ==
    \E c \in DefaultsAddCalls :
        /\ ~catalog_dict.isNone
        /\ Applied(add_parameter_default(State, c.name, c.type, c.default),
                   "add_parameter_default")

\* add_parameter_defaults({'k': ..., 'n': ...}, defaults) with defaults for
\* both names; the second type may name no builtin
DefaultsAddParameterDefaults ==
    \E types \in {<<"int", "int">>, <<"int", None>>} :
        /\ ~catalog_dict.isNone
        /\ Applied(add_parameter_defaults(State, <<"k", "n">>, types,
                                          <<PyInt(1), PyNone>>, 1),
                   "add_parameter_defaults")

DefaultsRemoveParameterDefault ==
    \E parameter \in Names :
        /\ ~catalog_dict.isNone
        /\ Applied(remove_parameter_default(State, parameter), "remove_parameter_default")

\* the calls of transmute_parameter: to one new name or to a list of two,
\* with and without a default
DefaultsTransmuteCalls ==
    [old : {"k", "n"},
     new : {[kind |-> "str", names |-> <<"k">>], [kind |-> "str", names |-> <<"n">>],
            [kind |-> "list", names |-> <<"k", "n">>]},
     type : {None, "int"}, given : BOOLEAN]

DefaultsTransmuteParameter ==
    \E c \in DefaultsTransmuteCalls :
        /\ ~catalog_dict.isNone
        /\ Applied(transmute_parameter(State, c.old, c.new,
                       [kind |-> c.new.kind, types |-> [i \in DOMAIN c.new.names |-> c.type]],
                       None,
                       [given |-> c.given, kind |-> c.new.kind,
                        v |-> [i \in DOMAIN c.new.names |-> PyInt(1)]]),
                   "transmute_parameter")

DefaultsRemoveParameter ==
    \E name \in {"k", "n"} :
        /\ ~catalog_dict.isNone
        /\ Applied(remove_parameter(State, name), "remove_parameter")

\* the catalog is saved and then loaded from its file
DefaultsSaveLoad ==
    LET Loaded(out) ==
            /\ out.end = "return"
            /\ catalog_dict' = out.self.d
            /\ typedparameterdict' = out.self.td
            /\ yaml_file' = SavedFile(catalog_dict)
    IN  /\ Loaded(load_attempt(NewInstance, SavedFile(catalog_dict), "ScannerError"))
        /\ ret' = [NoCall EXCEPT !.op = "load"]
        /\ UNCHANGED <<disk, uuid_count, config_vars, load_vars>>

NextDefaults ==
    DefaultsNewFilename \/ DefaultsRemoveFile \/ DefaultsAddParameterDefault
        \/ DefaultsAddParameterDefaults \/ DefaultsRemoveParameterDefault
        \/ DefaultsTransmuteParameter \/ DefaultsRemoveParameter \/ DefaultsSaveLoad

SpecDefaults == InitDefaults /\ [][NextDefaults]_vars

MaxPersistEntries == 2

\* Catalog(parameters={'n': 'int'}, verbose=10, overwrite_behavior='skip')
InitPersist ==
    /\ verbose = 10
    /\ overwrite_behavior = "skip"
    /\ allow_undeclared_parameters = FALSE
    /\ has_allow_undeclared_parameters = TRUE
    /\ catalog_dict = NewCatalogDict(SchemaOneInt, EmptyDict)
    /\ typedparameterdict = [none |-> FALSE, ann |-> SchemaOneInt.v]
    /\ disk = ExternalFiles
    /\ yaml_file = SavedFile(catalog_dict)
    /\ uuid_count = 0
    /\ ret = NoCall
    /\ loader = NoLoad
    /\ prompt = NoPrompt
    /\ writer = NoSave

\* files are cataloged, re-described and removed while the schema is the one
\* the catalog was made with
InitialSchema ==
    /\ typedparameterdict = [none |-> FALSE, ann |-> SchemaOneInt.v]
    /\ catalog_dict.ptypes = SchemaOneInt
    /\ catalog_dict.defaults = EmptyDict

\* every operation is called with its default arguments; the overwrite
\* prompt is left to time out
PersistNewFilename ==
    /\ InitialSchema
    /\ uuid_count < MaxUuid
    /\ Len(catalog_dict.files) < MaxPersistEntries
    /\ Applied(new_filename(State, "a", [x \in {"n"} |-> PyInt(1)], ".txt", None, None,
                            "timeout", {}),
               "new_filename")

\* a file that exists is registered, also when its label and parameters are
\* indexed already
PersistAddFile ==
    \E f \in ExternalFiles \cap disk :
        /\ InitialSchema
        /\ \/ Len(catalog_dict.files) < MaxPersistEntries
           \/ Collision("a", [x \in {"n"} |-> PyInt(2)]) # {}
        /\ Applied(add_file(State, f, "a", [x \in {"n"} |-> PyInt(2)], "timeout", {}),
                   "add_file")

PersistWriteFile ==
    \E f \in Indexed \ disk :
        /\ InitialSchema
        /\ disk' = disk \cup {f}
        /\ ret' = [NoCall EXCEPT !.op = "write"]
        /\ UNCHANGED <<catalog_dict, typedparameterdict, yaml_file, uuid_count>>
        /\ UNCHANGED <<config_vars, load_vars>>

PersistRemoveFile ==
    \E f \in Indexed :
        /\ InitialSchema
        /\ Applied(remove_file(State, f, None, NoParams, TRUE, TRUE, {}), "remove_file")

PersistPurge ==
    /\ InitialSchema
    /\ Indexed # {}
    /\ Applied(purge(State, {}), "purge")

\* update_file_params(filename, data_label=l): the file is given another label
PersistUpdateFileParams ==
    \E f \in Indexed, l \in Labels :
        /\ InitialSchema
        /\ Applied(update_file_params(State, f, l, NoParams, TRUE), "update_file_params")

PersistAddParameterDefault ==
    /\ "k" \notin DOMAIN catalog_dict.defaults
    /\ Applied(add_parameter_default(State, "k", "int", [given |-> TRUE, v |-> PyInt(1)]),
               "add_parameter_default")

PersistRemoveParameterDefault ==
    /\ "k" \in DOMAIN catalog_dict.defaults
    /\ Applied(remove_parameter_default(State, "k"), "remove_parameter_default")

\* transmute_parameter('k', 'j', 'int', default=1): the parameter is renamed
PersistTransmuteParameter ==
    /\ "k" \in DOMAIN catalog_dict.defaults
    /\ Applied(transmute_parameter(State, "k", [kind |-> "str", names |-> <<"j">>],
                                   [kind |-> "str", types |-> <<"int">>], None,
                                   [given |-> TRUE, kind |-> "str", v |-> <<PyInt(1)>>]),
               "transmute_parameter")

PersistRemoveParameter ==
    /\ "j" \in DOMAIN catalog_dict.defaults
    /\ Applied(remove_parameter(State, "j"), "remove_parameter")

NextPersist ==
    \/ PersistNewFilename \/ PersistAddFile \/ PersistWriteFile \/ PersistRemoveFile
    \/ PersistPurge \/ PersistUpdateFileParams \/ PersistAddParameterDefault
    \/ PersistRemoveParameterDefault \/ PersistTransmuteParameter
    \/ PersistRemoveParameter

SpecPersist == InitPersist /\ [][NextPersist]_vars

MutatingOps ==
    {"new_filename", "add_file", "remove_file", "purge", "update_file_params",
     "transmute_parameter", "remove_parameter", "add_parameter_default",
     "remove_parameter_default"}

\* the catalog file, loaded into a new instance, gives the catalog and the
\* schema this instance holds
Persisted ==
    LET Same(out) ==
            /\ out.end = "return"
            /\ SameCatalog(out.self.d, catalog_dict)
            /\ out.self.td = typedparameterdict
    IN  Same(load_attempt(NewInstance, yaml_file, "ScannerError"))

\* C22: whenever the last call was one of the operations that change the
\* catalog and it returned without an exception, loading the catalog file
\* gives the three views and the schema the instance holds in memory
C22_SuccessfulCallsArePersisted ==
    (ret.op \in MutatingOps /\ ret.err = "") => Persisted

(***************************************************************************)
(* A collision that is resolved as cancel.                                 *)
(***************************************************************************)
\* the prompt is shown for (l, p) and the answer a, or the default after a
\* timeout, is cancel
ResolvedAsCancel(l, p, a) ==
    /\ verbose > 0
    /\ Collision(l, p) # {}
    /\ a = "c" \/ (a = "timeout" /\ overwrite_behavior = "cancel")

\* new_filename gets as far as the prompt: the label and the extension have
\* passed check_if_recognized
Recognized(l, e) ==
    /\ ~check_if_recognized_raises(e, catalog_dict.rexts, NewFilenameWarnBehavior)
    /\ ~check_if_recognized_raises(l, catalog_dict.rnames, NewFilenameWarnBehavior)

\* the call raised KeyboardInterrupt and left the catalog, the schema, the
\* catalog file and the files on disk as they were
Aborted(out) ==
    /\ out.err = "KeyboardInterrupt"
    /\ out.s.d = catalog_dict
    /\ out.s.td = typedparameterdict
    /\ out.s.yaml = yaml_file
    /\ out.s.disk = disk

\* C23: in every reachable state, a new_filename or add_file call whose
\* collision is resolved as cancel raises KeyboardInterrupt and changes none
\* of the three views, the catalog file and the files on disk
C23_CancelChangesNothing ==
    \A l \in Labels, p \in ParamInputs, a \in Answers :
        ResolvedAsCancel(l, p, a)
        => /\ \A e \in Extensions :
                 Recognized(l, e)
                 => Aborted(new_filename(State, l, p, e, None, None, a, {}))
           /\ \A f \in ExternalFiles : Aborted(add_file(State, f, l, p, a, {}))

\* a call has just been cancelled at the prompt of a file that is still there
C23_Witness ==
    /\ ret.op \in {"new_filename", "add_file"}
    /\ ret.err = "KeyboardInterrupt"
    /\ Indexed \cap disk # {}

(***************************************************************************)
(* The overwrite prompt.                                                   *)
(***************************************************************************)
\* how many calls of ask_to_overwrite fit on the stack (the recursion limit)
MaxPromptDepth == 4

\* the defaults the callers may configure: Catalog.set_overwrite_behavior
\* takes 'overwrite', 'skip', 'cancel' and None, Librarian.add_catalog
\* documents 'skip', 'overwrite' and 'ask'
PromptDefaults == {"overwrite", "skip", "cancel", "ask", None}

\* default[0].lower()
FirstLetter(default) ==
    CASE default = "overwrite" -> "o"
      [] default = "skip" -> "s"
      [] default = "cancel" -> "c"
      [] default = "ask" -> "a"
      [] OTHER -> default

\* what timedInput returns: a line the user typed, or "timeout"
PromptInputs == {"timeout", "v", "o", "s", "c", "O", "x"}

InitPrompt ==
    /\ verbose = 10
    /\ overwrite_behavior \in PromptDefaults
    /\ allow_undeclared_parameters = FALSE
    /\ has_allow_undeclared_parameters = TRUE
    /\ catalog_dict = NewCatalogDict(NoSchema, EmptyDict)
    /\ typedparameterdict = [none |-> TRUE, ann |-> EmptyDict]
    /\ disk = ExternalFiles
    /\ yaml_file = SavedFile(catalog_dict)
    /\ uuid_count = 0
    /\ ret = NoCall
    /\ loader = NoLoad
    /\ writer = NoSave
    /\ prompt = NoPrompt

\* ask_to_overwrite(name, self._overwrite_behavior, self._timeout) is called
\* and gets to its prompt: None has no first letter
AskToOverwrite ==
    /\ prompt.pc = "idle"
    /\ prompt' = IF overwrite_behavior = None
                 THEN [NoPrompt EXCEPT !.pc = "TypeError", !.depth = 1]
                 ELSE [pc |-> "input", default |-> FirstLetter(overwrite_behavior),
                       text |-> None, depth |-> 1]
    /\ UNCHANGED <<catalog_vars, verbose, allow_undeclared_parameters,
                   has_allow_undeclared_parameters,
                   overwrite_behavior, ret, load_vars>>

\* timedInput returns and the answer is decided on: 'v' and every invalid
\* text call ask_to_overwrite again with the first letter as the default
TimedInput ==
    \E text \in PromptInputs :
        LET Decided(user_text) ==
                CASE user_text = "o" -> [prompt EXCEPT !.pc = "True", !.text = text]
                  [] user_text = "s" -> [prompt EXCEPT !.pc = "False", !.text = text]
                  [] user_text = "c" ->
                        [prompt EXCEPT !.pc = "KeyboardInterrupt", !.text = text]
                  [] OTHER ->
                        IF prompt.depth = MaxPromptDepth
                        THEN [prompt EXCEPT !.pc = "RecursionError", !.text = text]
                        ELSE [prompt EXCEPT !.text = text, !.depth = @ + 1]
        IN  /\ prompt.pc = "input"
            /\ prompt' = Decided(IF text = "timeout" THEN prompt.default ELSE text)
            /\ UNCHANGED <<catalog_vars, verbose, allow_undeclared_parameters,
                           has_allow_undeclared_parameters,
                           overwrite_behavior, ret, load_vars>>

\* the call has returned or raised; the next one may start
PromptReturns ==
    /\ prompt.pc \notin {"idle", "input"}
    /\ prompt' = NoPrompt
    /\ UNCHANGED <<catalog_vars, verbose, allow_undeclared_parameters,
                   has_allow_undeclared_parameters,
                   overwrite_behavior, ret, load_vars>>

NextPrompt == AskToOverwrite \/ TimedInput \/ PromptReturns

SpecPrompt == InitPrompt /\ [][NextPrompt]_vars

\* what the call ends in when the configured default decides
Decision ==
    CASE overwrite_behavior = "overwrite" -> "True"
      [] overwrite_behavior = "skip" -> "False"
      [] overwrite_behavior = "cancel" -> "KeyboardInterrupt"
      [] OTHER -> "none"

\* C24: for every default the callers may configure, a call of
\* ask_to_overwrite gets to its prompt, and a prompt that times out ends the
\* call at once with the configured default: overwrite, skip or cancel
C24_TimeoutResolvesToDefault ==
    [][/\ (prompt.pc = "idle" /\ prompt'.pc # "idle") => prompt'.pc = "input"
       /\ (prompt.pc = "input" /\ prompt'.text = "timeout")
          => prompt'.pc = Decision /\ Decision # "none"]_vars

(***************************************************************************)
(* Two Catalog instances on one catalog file.                              *)
(***************************************************************************)
\* how many filenames the two instances may ask for
MaxRaceFiles == 3

\* the first instance has made the catalog; the second one (loader.self) was
\* opened on the catalog file and has loaded it
InitRace ==
    /\ verbose = 10
    /\ overwrite_behavior = "skip"
    /\ allow_undeclared_parameters = FALSE
    /\ has_allow_undeclared_parameters = TRUE
    /\ catalog_dict = NewCatalogDict(TypedSchema, EmptyDict)
    /\ typedparameterdict = [none |-> FALSE, ann |-> TypedSchema.v]
    /\ disk = ExternalFiles
    /\ yaml_file = SavedFile(catalog_dict)
    /\ uuid_count = 0
    /\ ret = NoCall
    /\ loader = [NoLoad EXCEPT
                   !.pc = "returned",
                   !.self = load_attempt(NewInstance, SavedFile(catalog_dict),
                                         "ScannerError").self]
    /\ prompt = NoPrompt
    /\ writer = NoSave

\* the first instance calls new_filename(l, {'n': 1}, '.txt')
RaceNewFilename ==
    \E l \in Labels :
        /\ uuid_count < MaxRaceFiles
        /\ Applied(new_filename(State, l, [x \in {"n"} |-> PyInt(1)], ".txt", None, None,
                                None, {}),
                   "new_filename")

\* the second instance calls new_filename(l, {'n': 2}, '.txt') on what it
\* holds; the directory, the catalog file and uuid4 are the ones of the first
RaceOtherNewFilename ==
    \E l \in Labels :
        LET Returned(out) ==
                /\ loader' = [loader EXCEPT !.self.d = out.s.d, !.self.td = out.s.td]
                /\ disk' = out.s.disk
                /\ yaml_file' = out.s.yaml
                /\ uuid_count' = out.s.uuid
                /\ ret' = [NoCall EXCEPT !.op = "other.new_filename", !.err = out.err]
        IN  /\ uuid_count < MaxRaceFiles
            /\ Returned(new_filename([State EXCEPT !.d = loader.self.d,
                                                   !.td = loader.self.td],
                                     l, [x \in {"n"} |-> PyInt(2)], ".txt", None, None,
                                     None, {}))
            /\ UNCHANGED <<catalog_dict, typedparameterdict, config_vars, writer>>

\* the first instance reloads the catalog file
RaceLoad ==
    LET Loaded(out) ==
            /\ out.end = "return"
            /\ catalog_dict' = out.self.d
            /\ typedparameterdict' = out.self.td
    IN  /\ Loaded(load_attempt([d |-> catalog_dict, td |-> typedparameterdict,
                                installed |-> TRUE], yaml_file, "ScannerError"))
        /\ ret' = [NoCall EXCEPT !.op = "load"]
        /\ UNCHANGED <<disk, yaml_file, uuid_count, config_vars, load_vars>>

\* the second instance reloads the catalog file
RaceOtherLoad ==
    LET Loaded(out) ==
            /\ out.end = "return"
            /\ loader' = [loader EXCEPT !.self = out.self]
    IN  /\ Loaded(load_attempt(loader.self, yaml_file, "ScannerError"))
        /\ ret' = [NoCall EXCEPT !.op = "other.load"]
        /\ UNCHANGED <<catalog_vars, config_vars, writer>>

NextRace == RaceNewFilename \/ RaceOtherNewFilename \/ RaceLoad \/ RaceOtherLoad

SpecRace == InitRace /\ [][NextRace]_vars

FilesOf(d) == {d.files[i] : i \in DOMAIN d.files}

\* the files listed in the catalog file
PersistedFiles ==
    {LoadScalar(yaml_file.doc.files[i]).v : i \in DOMAIN yaml_file.doc.files}

\* C25: whenever each of the two instances holds a filename that new_filename
\* returned to it and that the other instance has not loaded, the catalog
\* file lists exactly one of the two: the other write is lost
C25_RacingWritesDropOne ==
    \A f1 \in FilesOf(catalog_dict) \ FilesOf(loader.self.d),
       f2 \in FilesOf(loader.self.d) \ FilesOf(catalog_dict) :
        (f1 \in PersistedFiles) # (f2 \in PersistedFiles)

\* both instances were given one filename without reloading in between, and
\* the catalog file holds one entry
C25_Witness ==
    /\ Len(catalog_dict.files) = 1
    /\ Len(loader.self.d.files) = 1
    /\ catalog_dict.files[1] # loader.self.d.files[1]
    /\ Len(yaml_file.doc.files) = 1
    /\ Len(yaml_file.doc.pairs) = 1

(***************************************************************************)
(* One file for a label and a set of parameters.                           *)
(***************************************************************************)
\* C26: in every reachable state no two positions of the pairs list carry the
\* same label and the same encoded key, and remove_file(filename) succeeds
\* for every filename in `files`
C26_OneFilePerKey ==
    /\ \A i, j \in DOMAIN catalog_dict.pairs :
          (/\ catalog_dict.pairs[i][1] = catalog_dict.pairs[j][1]
           /\ dict_to_yaml_key(catalog_dict.pairs[i][2])
                  = dict_to_yaml_key(catalog_dict.pairs[j][2]))
          => i = j
    /\ \A f \in Indexed :
          remove_file(State, f, None, NoParams, TRUE, TRUE, {}).err = ""

(***************************************************************************)
(* Data labels that are keys of the catalog dict.                          *)
(***************************************************************************)
\* how many filenames are asked for
MaxLabelFiles == 2

\* the labels callers pass: a recognized one and keys of the catalog dict
LabelInputs == {"a", "files", "name", "parameter types", "default parameters"}

\* Catalog(verbose=10, overwrite_behavior='skip') with and without declared
\* parameters
InitLabels ==
    /\ verbose = 10
    /\ overwrite_behavior = "skip"
    /\ allow_undeclared_parameters = TRUE
    /\ has_allow_undeclared_parameters = TRUE
    /\ \E parameters \in {NoSchema, TypedSchema} :
          /\ catalog_dict = NewCatalogDict(parameters, EmptyDict)
          /\ typedparameterdict = [none |-> parameters.none, ann |-> parameters.v]
    /\ disk = ExternalFiles
    /\ yaml_file = SavedFile(catalog_dict)
    /\ uuid_count = 0
    /\ ret = NoCall
    /\ loader = NoLoad
    /\ prompt = NoPrompt
    /\ writer = NoSave

\* the calls are made while the defaults and the declared types are the ones
\* the catalog was made with
MetadataAsMade ==
    /\ catalog_dict.defaults = EmptyDict
    /\ catalog_dict.ptypes \in {NoSchema, TypedSchema}

LabelsNewFilename ==
    \E l \in LabelInputs, p \in ParamInputs :
        /\ uuid_count < MaxLabelFiles
        /\ MetadataAsMade
        /\ Applied(new_filename(State, l, p, ".txt", None, None, "timeout", {}),
                   "new_filename")

LabelsAddFile ==
    \E f \in ExternalFiles \ Indexed, l \in LabelInputs, p \in ParamInputs :
        /\ MetadataAsMade
        /\ Applied(add_file(State, f, l, p, "timeout", {}), "add_file")

NextLabels == LabelsNewFilename \/ LabelsAddFile

SpecLabels == InitLabels /\ [][NextLabels]_vars

\* C27: a call of new_filename or add_file, whatever its label, either raises
\* and leaves the catalog, the schema and the catalog file as they were, or
\* appends one file and one pair and leaves the declared parameter types,
\* the default parameters and the recognized names and extensions alone
C27_LabelsLeaveMetadataAlone ==
    [][ret'.op \in {"new_filename", "add_file"}
       => IF ret'.err # ""
          THEN UNCHANGED <<catalog_dict, typedparameterdict, yaml_file>>
          ELSE /\ catalog_dict'.ptypes = catalog_dict.ptypes
               /\ catalog_dict'.defaults = catalog_dict.defaults
               /\ catalog_dict'.rnames = catalog_dict.rnames
               /\ catalog_dict'.rexts = catalog_dict.rexts
               /\ typedparameterdict' = typedparameterdict
               /\ Len(catalog_dict'.files) = Len(catalog_dict.files) + 1
               /\ SubSeq(catalog_dict'.files, 1, Len(catalog_dict.files))
                      = catalog_dict.files
               /\ SubSeq(catalog_dict'.pairs, 1, Len(catalog_dict.pairs))
                      = catalog_dict.pairs]_vars

(***************************************************************************)
(* The files a filter selects.                                             *)
(***************************************************************************)
\* the filters callers pass: no 'data_label', one label, a list of labels or
\* an empty list of them; no parameter, one value or a list of values
LabelFilters ==
    {NoLabel, Accepting(One(PyStr("a"))),
     Accepting(Several(<<PyStr("a"), PyStr("b")>>)), Accepting(Several(<< >>))}
ParamFilters ==
    {EmptyDict,
     [x \in {"n"} |-> One(PyInt(1))],
     [x \in {"n"} |-> Several(<<PyStr("1"), PyInt(2)>>)],
     [x \in {"m"} |-> One(PyStr("1"))]}
CollectionFilters == {FilterIn(l, p) : l \in LabelFilters, p \in ParamFilters}

\* the label and the cast parameters of the file at position i
CastPair(i) ==
    [label |-> catalog_dict.pairs[i][1],
     cast |-> configure_parameters(State, catalog_dict.pairs[i][2])]

\* the file at position i is one the filter asks for
Selected(i, file_filter) ==
    /\ file_filter.label.given
          => \E j \in DOMAIN file_filter.label.v :
                file_filter.label.v[j] = PyStr(CastPair(i).label)
    /\ \A key \in DOMAIN file_filter.params :
          /\ key \in DOMAIN CastPair(i).cast.val
          /\ \E j \in DOMAIN file_filter.params[key].v :
                PyEq(CastPair(i).cast.val[key], file_filter.params[key].v[j])

\* C29: in every reachable state and for every filter, get_files returns, in
\* the order of `files`, exactly the files whose label the 'data_label' of
\* the filter accepts and whose cast parameters hold, under every other key
\* of the filter, the accepted value or one of the accepted values
C29_GetFilesSelects ==
    \A file_filter \in CollectionFilters :
        /\ get_files(State, file_filter).err = ""
        /\ get_files(State, file_filter).val
               = SelectAt(catalog_dict.files,
                          {i \in DOMAIN catalog_dict.files : Selected(i, file_filter)}, 1)

(***************************************************************************)
(* purge with a file filter.                                               *)
(***************************************************************************)
\* the filters of the purge calls
PurgeFilters ==
    {Filter("a", EmptyDict), Filter("b", EmptyDict),
     Filter(None, [x \in {"n"} |-> PyInt(1)]),
     Filter("a", [x \in {"m"} |-> PyInt(1)])}

\* the positions of `files` that hold none of the names
Staying(names) ==
    {i \in DOMAIN catalog_dict.files :
        \A j \in DOMAIN names : names[j] # catalog_dict.files[i]}

\* the per-label map without the entries of the names
EntriesWithout(names) ==
    [l \in DOMAIN catalog_dict.entries |->
        [k \in {x \in DOMAIN catalog_dict.entries[l] :
                   \A j \in DOMAIN names : names[j] # catalog_dict.entries[l][x].filename}
            |-> catalog_dict.entries[l][k]]]

\* what the purge of the names leaves: the three views without them, the
\* others as they were and in their order, and the catalog file written once,
\* after the loop
PurgedExactly(out, names) ==
    /\ out.s.d.files = SelectAt(catalog_dict.files, Staying(names), 1)
    /\ out.s.d.pairs = SelectAt(catalog_dict.pairs, Staying(names), 1)
    /\ out.s.d.entries = EntriesWithout(names)
    /\ purge_each(State, names, {}).s.yaml = yaml_file
    /\ out.s.yaml = SavedFile(out.s.d)

\* C28: in every reachable state, purge(filter) returns and leaves the three
\* views without exactly the files get_files(filter) lists before the call,
\* the others unchanged and in order, after a single save that follows the
\* removals
C28_FilteredPurgeRemovesListed ==
    \A file_filter \in PurgeFilters :
        /\ purge_filtered(State, file_filter, {}).err = ""
        /\ PurgedExactly(purge_filtered(State, file_filter, {}),
                         get_files(State, file_filter).val)

(***************************************************************************)
(* Strictness at construction.                                             *)
(***************************************************************************)
\* what a caller passes as `allow_undeclared_parameters` and as `strict`:
\* nothing (kwargs.get gives None), True or False
KwargValues == {None, "True", "False"}

\* bool(x) of such a value
Truth(x) == x = "True"

\* the strictness part of Catalog.__init__: [err, has, allow]; `has` says
\* whether self._allow_undeclared_parameters was assigned, `allow` is its
\* value when it was
init_strictness(lenient, strict) ==
    IF lenient = None /\ strict = None
    THEN [err |-> "", has |-> TRUE, allow |-> FALSE]
    ELSE IF lenient # None /\ strict # None
    THEN (IF lenient = strict
          THEN [err |-> "ValueError", has |-> FALSE, allow |-> FALSE]
          ELSE [err |-> "", has |-> FALSE, allow |-> FALSE])
    ELSE [err |-> "", has |-> TRUE, allow |-> Truth(lenient) \/ ~Truth(strict)]

\* before Catalog(...) is called
InitStrict ==
    /\ verbose = 10
    /\ overwrite_behavior = "skip"
    /\ allow_undeclared_parameters = FALSE
    /\ has_allow_undeclared_parameters = FALSE
    /\ catalog_dict = NoneDict
    /\ typedparameterdict = [none |-> TRUE, ann |-> EmptyDict]
    /\ disk = ExternalFiles
    /\ yaml_file = SavedFile(NoneDict)
    /\ uuid_count = 0
    /\ ret = NoCall
    /\ loader = NoLoad
    /\ prompt = NoPrompt
    /\ writer = NoSave

\* Catalog(name, dir, parameters=.., allow_undeclared_parameters=.., strict=..)
\* where no catalog file exists; the two keyword arguments stay in kwargs and
\* so end up in _catalog_dict
Construct ==
    \E lenient \in KwargValues, strict \in KwargValues, parameters \in {NoSchema, TypedSchema} :
        LET made == init_strictness(lenient, strict)
            kwargs == [allow_undeclared_parameters |-> lenient, strict |-> strict]
        IN  /\ ret.op = "init"
            /\ ret' = [NoCall EXCEPT !.op = "__init__", !.err = made.err, !.val = kwargs]
            /\ IF made.err # ""
               THEN UNCHANGED <<catalog_vars, allow_undeclared_parameters,
                                has_allow_undeclared_parameters>>
               ELSE /\ catalog_dict' = NewCatalogDict(parameters, EmptyDict) @@ kwargs
                    /\ typedparameterdict' = [none |-> parameters.none, ann |-> parameters.v]
                    /\ yaml_file' = SavedFile(catalog_dict')
                    /\ allow_undeclared_parameters' = made.allow
                    /\ has_allow_undeclared_parameters' = made.has
                    /\ UNCHANGED <<disk, uuid_count>>
            /\ UNCHANGED <<verbose, overwrite_behavior, prompt, load_vars>>

\* a later cast on the catalog that was made
StrictConfigureParameters ==
    /\ ~catalog_dict.isNone
    /\ ConfigureParameters

NextStrict == Construct \/ StrictConfigureParameters

SpecStrict == InitStrict /\ [][NextStrict]_vars

\* whether the catalog should accept undeclared names, by the two arguments
Lenient(lenient, strict) ==
    IF lenient # None THEN Truth(lenient)
    ELSE IF strict # None THEN ~Truth(strict)
    ELSE FALSE

\* C30: construction raises ValueError exactly when both arguments are given
\* and equal; a catalog that was made has its strictness assigned, lenient
\* exactly when the arguments say so (strict when neither is given); and a
\* later cast of a dict that holds every declared name and an undeclared one
\* is accepted exactly when the catalog is lenient
C30_StrictnessFollowsArguments ==
    /\ ret.op = "__init__"
          => (ret.err = "ValueError"
                 <=> /\ ret.val.strict # None
                     /\ ret.val.strict = ret.val.allow_undeclared_parameters)
    /\ ~catalog_dict.isNone
          => /\ has_allow_undeclared_parameters
             /\ allow_undeclared_parameters
                   = Lenient(catalog_dict.allow_undeclared_parameters, catalog_dict.strict)
    /\ (/\ ret.op = "configure_parameters"
        /\ ~typedparameterdict.none
        /\ DOMAIN typedparameterdict.ann \subseteq DOMAIN ret.params.v
        /\ DOMAIN ret.params.v # DOMAIN typedparameterdict.ann
        /\ \A x \in DOMAIN ret.params.v : ret.params.v[x] = PyInt(1))
          => (ret.err = ""
                 <=> Lenient(catalog_dict.allow_undeclared_parameters, catalog_dict.strict))

(***************************************************************************)
(* The recognition checks of writing and of reading.                       *)
(***************************************************************************)
\* C31: in every reachable state and for every label, if the recognized-label
\* check of new_filename lets the label through, the check of get_filename,
\* which has_file(data_label=..) runs too, does not fail for it
C31_RecognitionAgrees ==
    \A l \in Labels :
        ~check_if_recognized_raises(l, catalog_dict.rnames, NewFilenameWarnBehavior)
           => ~check_if_recognized_raises(l, catalog_dict.rnames, GetFilenameWarnBehavior)

(***************************************************************************)
(* Reading back the parameters new_filename stored.                        *)
(***************************************************************************)
MaxRecastFiles == 2

\* a catalog declares one parameter, 'n', of one of the types, with no
\* default or with the default None
RecastSetups ==
    [type : BuiltinTypes, defaults : {EmptyDict, [x \in {"n"} |-> PyNone]}]

\* the parameter dicts callers pass to it
RecastValues ==
    {PyInt(1), PyFloat(2), PyStr("x"), PyStr("a,b"), PyBool(TRUE),
     PyList("['a', 'b']"), PyNone}
RecastInputs == {EmptyDict} \cup {[x \in {"n"} |-> v] : v \in RecastValues}

InitRecast ==
    /\ verbose = 10
    /\ overwrite_behavior = "skip"
    /\ allow_undeclared_parameters = FALSE
    /\ has_allow_undeclared_parameters = TRUE
    /\ \E setup \in RecastSetups :
          /\ catalog_dict = NewCatalogDict([none |-> FALSE, v |-> [x \in {"n"} |-> setup.type]],
                                           setup.defaults)
          /\ typedparameterdict = [none |-> FALSE, ann |-> [x \in {"n"} |-> setup.type]]
    /\ disk = ExternalFiles
    /\ yaml_file = SavedFile(catalog_dict)
    /\ uuid_count = 0
    /\ ret = NoCall
    /\ loader = NoLoad
    /\ prompt = NoPrompt
    /\ writer = NoSave

\* new_filename('a', p, '.txt') for parameters that are not cataloged yet
RecastNewFilename ==
    \E p \in RecastInputs :
        /\ uuid_count < MaxRecastFiles
        /\ configure_parameters(State, p).err = ""
              => dict_to_yaml_key(configure_parameters(State, p).val)
                    \notin DOMAIN catalog_dict.entries["a"]
        /\ Apply(new_filename(State, "a", p, ".txt", None, None, None, {}),
                 "new_filename", "a", Params(p))

\* get_parameters(filename) for a cataloged file
RecastGetParameters ==
    \E f \in Indexed :
        /\ ret' = [op |-> "get_parameters", err |-> get_parameters(State, f).err,
                   val |-> None, label |-> f, params |-> NoParams]
        /\ UNCHANGED <<catalog_vars, config_vars, load_vars>>

NextRecast == RecastNewFilename \/ RecastGetParameters

SpecRecast == InitRecast /\ [][NextRecast]_vars

\* the parameters new_filename cast for the call that ret records
CastAtCall == configure_parameters(State, ret.params.v).val

\* C32: after new_filename returned a filename for parameters it cast to p,
\* get_data_label_params and get_parameters of that file succeed and give
\* parameters equal to p, whose encoded key is the key the entry is under
C32_StoredParamsRecast ==
    (ret.op = "new_filename" /\ ret.err = "")
       => /\ get_data_label_params(State, ret.val).err = ""
          /\ DictEq(get_data_label_params(State, ret.val).val[2], CastAtCall)
          /\ get_parameters(State, ret.val).err = ""
          /\ DictEq(get_parameters(State, ret.val).val, CastAtCall)
          /\ dict_to_yaml_key(get_parameters(State, ret.val).val)
                \in DOMAIN catalog_dict.entries["a"]
          /\ catalog_dict.entries["a"][dict_to_yaml_key(get_parameters(State, ret.val).val)].filename
                = ret.val

(***************************************************************************)
(* The entries a migration passes over.                                    *)
(***************************************************************************)
MaxSkipFiles == 2

InitSkip ==
    /\ verbose = 10
    /\ overwrite_behavior = "skip"
    /\ allow_undeclared_parameters \in BOOLEAN
    /\ has_allow_undeclared_parameters = TRUE
    /\ catalog_dict = NewCatalogDict(SchemaOneInt, EmptyDict)
    /\ typedparameterdict = [none |-> FALSE, ann |-> SchemaOneInt.v]
    /\ disk = ExternalFiles
    /\ yaml_file = SavedFile(catalog_dict)
    /\ uuid_count = 0
    /\ ret = NoCall
    /\ loader = NoLoad
    /\ prompt = NoPrompt
    /\ writer = NoSave

\* the parameter dicts of the files: the declared 'n', with or without the
\* undeclared 'm'
SkipParamInputs ==
    {[x \in {"n"} |-> PyInt(1)], [x \in {"n"} |-> PyInt(2)], [x \in {"m", "n"} |-> PyInt(1)]}

\* files are cataloged under the schema the catalog was made with
SkipNewFilename ==
    \E l \in Labels, p \in SkipParamInputs :
        /\ InitialSchema
        /\ uuid_count < MaxSkipFiles
        /\ Collision(l, p) = {}
        /\ l \in DOMAIN catalog_dict.entries
              => dict_to_yaml_key(p) \notin DOMAIN catalog_dict.entries[l]
        /\ Applied(new_filename(State, l, p, ".txt", None, None, None, {}), "new_filename")

\* add_parameter_default('k', 'int', 1): a parameter the cataloged files do
\* not hold is introduced
SkipAddParameterDefault ==
    /\ "k" \notin DOMAIN catalog_dict.ptypes.v
    /\ "j" \notin DOMAIN catalog_dict.ptypes.v
    /\ Applied(add_parameter_default(State, "k", "int", [given |-> TRUE, v |-> PyInt(1)]),
               "add_parameter_default")

\* the calls transmute_parameter(old, 'j', 'int', default=1, file_filter=..)
SkipCalls ==
    [old : {"k", "m"}, file_filter : {NoFilter, Filter("a", EmptyDict)}]

SkipTransmuted(c) ==
    IF c.file_filter.none
    THEN transmute_parameter(State, c.old, [kind |-> "str", names |-> <<"j">>],
                             [kind |-> "str", types |-> <<"int">>], None,
                             [given |-> TRUE, kind |-> "str", v |-> <<PyInt(1)>>])
    ELSE transmute_filtered(State, c.old, [kind |-> "str", names |-> <<"j">>],
                            [kind |-> "str", types |-> <<"int">>], None,
                            [given |-> TRUE, kind |-> "str", v |-> <<PyInt(1)>>],
                            c.file_filter)

SkipTransmuteParameter ==
    \E c \in SkipCalls :
        /\ "j" \notin DOMAIN catalog_dict.ptypes.v
        /\ Applied(SkipTransmuted(c), "transmute_parameter")

NextSkip == SkipNewFilename \/ SkipAddParameterDefault \/ SkipTransmuteParameter

SpecSkip == InitSkip /\ [][NextSkip]_vars

\* the entry at position i of `files` is in d what it is in the catalog: the
\* file, its pair, its key and what the per-label map holds under the key
Untouched(d, i) ==
    LET label == catalog_dict.pairs[i][1]
        yaml_key == dict_to_yaml_key(catalog_dict.pairs[i][2])
    IN  /\ i <= Len(d.files)
        /\ d.files[i] = catalog_dict.files[i]
        /\ d.pairs[i] = catalog_dict.pairs[i]
        /\ yaml_key \in DOMAIN d.entries[label]
        /\ d.entries[label][yaml_key] = catalog_dict.entries[label][yaml_key]

\* the entry at position i is one the call has to pass over: its stored
\* parameters do not hold the old name, or the filter leaves its file out
PassedOver(c, i) ==
    \/ c.old \notin DOMAIN catalog_dict.pairs[i][2]
    \/ \A j \in DOMAIN get_files(State, c.file_filter).val :
          get_files(State, c.file_filter).val[j] # catalog_dict.files[i]

\* C33: in every state where 'j' is not declared yet and for every call,
\* transmute_parameter leaves every entry it has to pass over as it was, and
\* it returns when it has to pass over every entry
C33_TransmuteSkips ==
    \A c \in SkipCalls :
        "j" \notin DOMAIN catalog_dict.ptypes.v
           => /\ \A i \in DOMAIN catalog_dict.files :
                    PassedOver(c, i) => Untouched(SkipTransmuted(c).s.d, i)
              /\ (\A i \in DOMAIN catalog_dict.files : PassedOver(c, i))
                    => SkipTransmuted(c).err = ""

(***************************************************************************)
(* The three actions of the recognition check.                             *)
(***************************************************************************)
\* the default_action values a caller gives; anything but 'ignore' and
\* 'warn' asserts
DefaultActions == {"ignore", "warn", "error"}

\* the file extensions given to new_filename: a recognized one and one that
\* is not
GivenExtensions == Extensions \cup {".dat"}

\* the catalog with every label and extension of the model recognized
AllRecognized ==
    [State EXCEPT !.d.rnames = @ \cup Labels, !.d.rexts = @ \cup GivenExtensions]

\* the check of one value under one action
TriState(label, recognized_labels, default_action) ==
    LET out == check_if_recognized(label, recognized_labels, default_action)
    IN  /\ default_action = "ignore" => (out.err = "" /\ out.warnings = 0)
        /\ default_action = "warn"
              => (out.err = "" /\ (out.warnings = 1 <=> label \notin recognized_labels))
        /\ default_action = "error" => (out.err # "" <=> label \notin recognized_labels)

\* C34: in every state the check never fails and warns of nothing under
\* 'ignore', warns of an unrecognized value and goes on under 'warn', and
\* fails for an unrecognized value under 'error'; a new_filename whose check
\* of the extension or of the label fails returns an error and leaves the
\* catalog, its .yaml file and the files on disk as they were; and what
\* add_file does is what it does when everything is recognized
C34_RecognitionTriState ==
    /\ \A action \in DefaultActions :
          /\ \A l \in Labels : TriState(l, catalog_dict.rnames, action)
          /\ \A e \in GivenExtensions \cup {None} :
                TriState(e, catalog_dict.rexts, action)
    /\ \A l \in Labels, p \in ParamInputs, e \in GivenExtensions :
       \A action \in DefaultActions \cup {None} :
          LET behavior == IF action = None THEN NewFilenameWarnBehavior ELSE action
              out == new_filename(State, l, p, e, None, action, "o", {})
          IN  (check_if_recognized(e, catalog_dict.rexts, behavior).err # ""
               \/ check_if_recognized(l, catalog_dict.rnames, behavior).err # "")
                 => (out.err # "" /\ out.s = State)
    /\ \A f \in ExternalFiles, l \in Labels, p \in ParamInputs :
       \A a \in PromptAnswers(l, p) :
          LET out == add_file(State, f, l, p, a, {})
              all == add_file(AllRecognized, f, l, p, a, {})
          IN  /\ out.err = all.err
              /\ out.val = all.val
              /\ out.s.d.files = all.s.d.files

(***************************************************************************)
(* Writer (src/src/librarian/actors/writer.py): cataloging, then writing.  *)
(***************************************************************************)
\* number of filenames the catalog generates before the model stops writing
MaxWriterFiles == 2

\* what is given as data: a dict or a str
Datas == {"dict", "str"}

\* the extensions a Writer can be made with, and the ones a call can give
DefaultExtensions == {None, ".txt"}
WriterExtensions == {None, ".txt", ".npz", ".csv"}

\* Writer(default_extension).write_and_catalog_data(catalog, data, data_label,
\* params, extension); `answer` is what the overwrite prompt of the catalog
\* gets.  open(filename, 'w') creates the file before file.write(data)
\* rejects data that is not a str
write_and_catalog_data(s, default_extension, data, data_label, params, extension, answer) ==
    LET WithFile(s2, filename) == [s2 EXCEPT !.disk = @ \cup {filename}]
        Written(named, ext) ==
            IF named.err # "" THEN named
            ELSE IF named.val = None THEN Ok(named.s, None)
            ELSE CASE ext = ".pkl" -> Ok(WithFile(named.s, named.val), None)
                   [] ext = ".npz" ->
                         IF data = "dict" THEN Ok(WithFile(named.s, named.val), None)
                         ELSE Raise(named.s, "ValueError")
                   [] ext = ".npy" -> Ok(WithFile(named.s, named.val), None)
                   [] ext = ".txt" ->
                         IF data = "str" THEN Ok(WithFile(named.s, named.val), None)
                         ELSE Raise(WithFile(named.s, named.val), "TypeError")
                   [] OTHER -> Raise(named.s, "ValueError")
        Named(ext) ==
            Written(new_filename(s, data_label, params, ext, None, None, answer, {}), ext)
    IN  Named(IF extension = None THEN default_extension ELSE extension)

InitWriter ==
    /\ verbose \in {10, 30}
    /\ overwrite_behavior \in {"skip", "overwrite"}
    /\ allow_undeclared_parameters = TRUE
    /\ has_allow_undeclared_parameters = TRUE
    /\ catalog_dict = NewCatalogDict(SchemaOneInt, EmptyDict)
    /\ typedparameterdict = [none |-> FALSE, ann |-> SchemaOneInt.v]
    /\ disk = ExternalFiles
    /\ yaml_file = SavedFile(catalog_dict)
    /\ uuid_count = 0
    /\ ret = NoCall
    /\ loader = NoLoad
    /\ prompt = NoPrompt
    /\ writer = NoSave

WriteAndCatalogData ==
    \E default \in DefaultExtensions, data \in Datas, l \in Labels, p \in ParamInputs :
      \E e \in WriterExtensions, a \in PromptAnswers(l, p) :
        /\ uuid_count < MaxWriterFiles
        /\ Applied(write_and_catalog_data(State, default, data, l, p, e, a),
                   "write_and_catalog_data")

NextWriter == WriteAndCatalogData

SpecWriter == InitWriter /\ [][NextWriter]_vars

\* the filename the catalog holds for (data_label, params), or None
EntryFor(d, data_label, params) ==
    LET key == dict_to_yaml_key(configure_parameters(State, params).val)
    IN  IF data_label \in DOMAIN d.entries /\ key \in DOMAIN d.entries[data_label]
        THEN d.entries[data_label][key].filename
        ELSE None

\* C35: for every call of write_and_catalog_data in every state, a call that
\* raises ValueError leaves the entry of (data_label, params) as it was, every
\* file the call has cataloged exists when it ends, and a call whose
\* new_filename returns None returns normally with the files on disk as they
\* were
C35_WriterEntryHasFile ==
    \A default \in DefaultExtensions, data \in Datas, l \in Labels, p \in ParamInputs :
      \A e \in WriterExtensions, a \in PromptAnswers(l, p) :
        LET ext == IF e = None THEN default ELSE e
            named == new_filename(State, l, p, ext, None, None, a, {})
            out == write_and_catalog_data(State, default, data, l, p, e, a)
        IN  /\ out.err = "ValueError"
                  => EntryFor(out.s.d, l, p) = EntryFor(catalog_dict, l, p)
            /\ \A i \in DOMAIN out.s.d.files :
                  out.s.d.files[i] \notin Indexed => out.s.d.files[i] \in out.s.disk
            /\ (named.err = "" /\ named.val = None)
                  => (out.err = "" /\ out.s.disk = disk)

(***************************************************************************)
(* Actor (src/src/librarian/actor.py): acting on cataloged files.          *)
(***************************************************************************)
\* the keyword arguments a caller adds to act(); Python binds the keyword
\* data_params to the parameter of that name, so **kwargs never holds it
ActKwargs == {EmptyDict, [x \in {"extension"} |-> PyStr(".txt")]}

\* what act() gets as data_params: None or a (data_name, params) pair
DataParams == {None} \cup (Labels \X SkipParamInputs)

\* Actor.act_on_catalog(catalog, **kwargs): [err, acted]; acted are the paths
\* file_action was called with, in order
act_on_catalog(s, kwargs) ==
    [err |-> get_files(s, NoFilter).err, acted |-> get_files(s, NoFilter).val]

\* Actor.act_on_cataloged_data(catalog, data_name, params, **kwargs): Catalog
\* defines no get_file
act_on_cataloged_data(s, data_name, params, kwargs) ==
    [err |-> "AttributeError", acted |-> << >>]

\* Actor.act(catalog, data_params, **kwargs)
act(s, data_params, kwargs) ==
    IF "data_params" \notin DOMAIN kwargs
    THEN act_on_catalog(s, kwargs)
    ELSE act_on_cataloged_data(s, data_params[1], data_params[2], kwargs)

Act ==
    \E data_params \in DataParams, kwargs \in ActKwargs :
        /\ ret' = [NoCall EXCEPT !.op = "act", !.err = act(State, data_params, kwargs).err]
        /\ UNCHANGED <<catalog_vars, config_vars, load_vars>>

NextActor == SkipNewFilename \/ Act

SpecActor == InitSkip /\ [][NextActor]_vars

\* C36: in every state and for every call of act, the action is performed
\* on every file of get_files() when data_params is None, and on the one
\* file cataloged with the data name and the parameters when data_params
\* names a cataloged file
C36_ActDispatches ==
    \A data_params \in DataParams, kwargs \in ActKwargs :
        LET out == act(State, data_params, kwargs)
        IN  IF data_params = None
            THEN out.err = "" /\ out.acted = catalog_dict.files
            ELSE get_filename(State, data_params[1], Params(data_params[2])).err = ""
                    => /\ out.err = ""
                       /\ out.acted =
                             <<get_filename(State, data_params[1],
                                            Params(data_params[2])).val>>

(***************************************************************************)
(* commandline_Writer (src/src/librarian/writers/cmdln_writer.py).         *)
(***************************************************************************)
\* number of filenames the writer generates before the model stops calling
MaxCmdlnFiles == 2

\* what parameterized_command of a subclass returns: a command or None
Commands == {None, "cmd"}

\* the writer without its first test: the command is run and the file added
\* whether or not the parameters are cataloged
commandline_write_and_catalog_data_unchecked(s, default_extension, command, made, data_label, params, extension) ==
    LET Added(added) == [s |-> added.s, err |-> added.err, val |-> None, ran |-> TRUE]
        Generated(s2, file) ==
            IF command = None THEN [s |-> s2, err |-> "", val |-> None, ran |-> FALSE]
            ELSE Added(add_file([s2 EXCEPT !.disk = IF made THEN @ \cup {file} ELSE @],
                                file, data_label, params, "o", {}))
    IN  Generated([s EXCEPT !.uuid = @ + 1],
                  unique_filename(data_label, s.uuid + 1,
                                  IF extension = "use_default" THEN default_extension
                                  ELSE extension))

\* commandline_Writer(default_extension).write_and_catalog_data(catalog,
\* data_label, params, extension): [s, err, val, ran]; `command` is what
\* parameterized_command returns, `made` whether running it generates the
\* file, and ran whether os.system was called
commandline_write_and_catalog_data(s, default_extension, command, made, data_label, params, extension) ==
    LET Added(added) == [s |-> added.s, err |-> added.err, val |-> None, ran |-> TRUE]
        \* the command is run and, whatever it did, the file is added
        Generated(s2, file) ==
            IF command = None THEN [s |-> s2, err |-> "", val |-> None, ran |-> FALSE]
            ELSE Added(add_file([s2 EXCEPT !.disk = IF made THEN @ \cup {file} ELSE @],
                                file, data_label, params, "o", {}))
        \* if the given parameters are already cataloged, do nothing
        Found(found) ==
            IF found.err # "" THEN [s |-> s, err |-> found.err, val |-> None, ran |-> FALSE]
            ELSE IF found.val THEN [s |-> s, err |-> "", val |-> None, ran |-> FALSE]
            ELSE Generated([s EXCEPT !.uuid = @ + 1],
                           unique_filename(data_label, s.uuid + 1,
                                           IF extension = "use_default"
                                           THEN default_extension ELSE extension))
    IN  Found(has_file(s, None, data_label, Params(params)))

InitCmdln ==
    /\ verbose \in {10, 30}
    /\ overwrite_behavior = "skip"
    /\ allow_undeclared_parameters \in BOOLEAN
    /\ has_allow_undeclared_parameters = TRUE
    /\ catalog_dict = NewCatalogDict(SchemaOneInt, EmptyDict)
    /\ typedparameterdict = [none |-> FALSE, ann |-> SchemaOneInt.v]
    /\ disk = ExternalFiles
    /\ yaml_file = SavedFile(catalog_dict)
    /\ uuid_count = 0
    /\ ret = NoCall
    /\ loader = NoLoad
    /\ prompt = NoPrompt
    /\ writer = NoSave

\* the calls of write_and_catalog_data on a commandline_Writer('.txt'), the
\* extension left at 'use_default'
CmdlnCalls == [command : Commands, made : BOOLEAN, l : Labels, p : ParamInputs]

CmdlnWritten(c) ==
    commandline_write_and_catalog_data(State, ".txt", c.command, c.made, c.l, c.p,
                                       "use_default")

\* the call c has ended with out
CmdlnApply(out, c) ==
    /\ catalog_dict' = out.s.d
    /\ typedparameterdict' = out.s.td
    /\ disk' = out.s.disk
    /\ yaml_file' = out.s.yaml
    /\ uuid_count' = out.s.uuid
    /\ ret' = [op |-> "write_and_catalog_data", err |-> out.err,
               val |-> IF out.ran THEN c.command ELSE None,
               label |-> c.l, params |-> Params(c.p)]
    /\ UNCHANGED <<config_vars, load_vars>>

CmdlnWriteAndCatalogData ==
    \E c \in CmdlnCalls :
        /\ uuid_count < MaxCmdlnFiles
        /\ CmdlnApply(CmdlnWritten(c), c)

NextCmdln == CmdlnWriteAndCatalogData

SpecCmdln == InitCmdln /\ [][NextCmdln]_vars

\* the positions of `files` indexed for (data_label, params)
IndexedFor(d, data_label, params) ==
    {i \in DOMAIN d.pairs :
        /\ d.pairs[i][1] = data_label
        /\ dict_to_yaml_key(d.pairs[i][2])
              = dict_to_yaml_key(configure_parameters(State, params).val)}

====
